---------------------------- MODULE Spec2Model ----------------------------
(***************************************************************************)
(* The knowledge graph store (knowledge_graph.py) and the two relationship *)
(* inference engines that write to it: the automatic enhancer              *)
(* (auto_enhance.py) and the comprehensive enhancer                        *)
(* (enhance_knowledge_graph.py).                                           *)
(*                                                                         *)
(* Text that the code searches, lower-cases or splits (names, locations,   *)
(* document contents, keywords, patterns) is a sequence of one-character   *)
(* strings, so that the string operations are computed.  Identifiers,      *)
(* type names and the property values the code only stores are strings.    *)
(***************************************************************************)
EXTENDS Integers, Sequences, FiniteSets, TLC

VARIABLES
    disk,       \* the committed content of .cocoindex/knowledge_graph.db
    conn,       \* the content seen through the open connection (disk + open transaction)
    pc,         \* the running script and its position, "idle" between scripts
    stats,      \* self.stats of the running enhancer
    metadata,   \* .cocoindex/complete-metadata.json as loaded by _load_metadata
    files,      \* the backing documents on the file system
    rebuilds,   \* how many times knowledge_graph.main has run
    run,        \* what is known of the current or last inference run
    trace       \* the last calls made directly on the store primitives

vars == <<disk, conn, pc, stats, metadata, files, rebuilds, run, trace>>

\* ------------------------------------------------------------------ bounds

MaxRebuilds == 2
MaxCalls == 3
MaxBumps == 11

\* -------------------------------------------------------- Python built-ins

\* Python's None; no text value is equal to it
None == <<"None">>

UpperCase == <<"A","B","C","D","E","F","G","H","I","J","K","L","M",
               "N","O","P","Q","R","S","T","U","V","W","X","Y","Z">>
LowerCase == <<"a","b","c","d","e","f","g","h","i","j","k","l","m",
               "n","o","p","q","r","s","t","u","v","w","x","y","z">>
Digits == {"0","1","2","3","4","5","6","7","8","9"}

\* the characters matched by \w
WordChars == {UpperCase[i] : i \in DOMAIN UpperCase}
             \cup {LowerCase[i] : i \in DOMAIN LowerCase} \cup Digits \cup {"_"}

LowerChar(c) ==
    IF \E i \in DOMAIN UpperCase : UpperCase[i] = c
    THEN LowerCase[CHOOSE i \in DOMAIN UpperCase : UpperCase[i] = c]
    ELSE c

\* str.lower()
Lower(s) == [i \in DOMAIN s |-> LowerChar(s[i])]

\* sub in s
Contains(sub, s) ==
    \E i \in 0..(Len(s) - Len(sub)) : SubSeq(s, i + 1, i + Len(sub)) = sub

\* str.replace(old, new), old not empty
RECURSIVE Replace(_, _, _)
Replace(s, old, new) ==
    IF Len(s) < Len(old) THEN s
    ELSE IF SubSeq(s, 1, Len(old)) = old
         THEN new \o Replace(SubSeq(s, Len(old) + 1, Len(s)), old, new)
         ELSE <<Head(s)>> \o Replace(Tail(s), old, new)

\* set(re.findall(r'\w+', s)), cur being the word read so far
RECURSIVE WordsFrom(_, _)
WordsFrom(s, cur) ==
    IF s = <<>> THEN (IF cur = <<>> THEN {} ELSE {cur})
    ELSE IF Head(s) \in WordChars
         THEN WordsFrom(Tail(s), Append(cur, Head(s)))
         ELSE (IF cur = <<>> THEN {} ELSE {cur}) \cup WordsFrom(Tail(s), <<>>)

Words(s) == WordsFrom(s, <<>>)

\* dict.get(key, default)
Get(d, key, default) == IF key \in DOMAIN d THEN d[key] ELSE default

\* the empty dict
EmptyDict == [k \in {} |-> 0]
NoProps == EmptyDict

\* json.dumps / json.loads: the stored column holds the serialised text of
\* the value, which is not the value itself and has to be loaded to be read
JsonDumps(d) == [json |-> d]
JsonLoads(text) == text.json

\* the lists a nested loop yields, one after the other
RECURSIVE Flatten(_)
Flatten(seqs) ==
    IF seqs = <<>> THEN <<>> ELSE Head(seqs) \o Flatten(Tail(seqs))

\* ------------------------------------------------------ the fixed tables

\* auto_enhance.py:38-49
vulnerability_keywords ==
    << [key |-> <<"r","e","e","n","t","r","a","n","c","y">>,
        keywords |-> << <<"r","e","e","n","t","r","a","n","c","y">>, <<"r","e","e","n","t","r","a","n","t">>, <<"c","a","l","l",".","v","a","l","u","e">>, <<"e","x","t","e","r","n","a","l"," ","c","a","l","l">> >>],
       [key |-> <<"a","c","c","e","s","s","_","c","o","n","t","r","o","l">>,
        keywords |-> << <<"a","c","c","e","s","s"," ","c","o","n","t","r","o","l">>, <<"o","w","n","a","b","l","e">>, <<"o","n","l","y","o","w","n","e","r">>, <<"p","e","r","m","i","s","s","i","o","n">>, <<"a","u","t","h","o","r","i","z","a","t","i","o","n">> >>],
       [key |-> <<"i","n","t","e","g","e","r","_","o","v","e","r","f","l","o","w">>,
        keywords |-> << <<"o","v","e","r","f","l","o","w">>, <<"u","n","d","e","r","f","l","o","w">>, <<"s","a","f","e","m","a","t","h">>, <<"a","r","i","t","h","m","e","t","i","c">> >>],
       [key |-> <<"f","r","o","n","t","r","u","n","n","i","n","g">>,
        keywords |-> << <<"f","r","o","n","t","r","u","n">>, <<"m","e","v">>, <<"s","a","n","d","w","i","c","h">>, <<"m","e","m","p","o","o","l">> >>],
       [key |-> <<"f","l","a","s","h","_","l","o","a","n">>,
        keywords |-> << <<"f","l","a","s","h"," ","l","o","a","n">>, <<"f","l","a","s","h"," ","a","t","t","a","c","k">>, <<"p","r","i","c","e"," ","m","a","n","i","p","u","l","a","t","i","o","n">> >>],
       [key |-> <<"d","o","s">>,
        keywords |-> << <<"d","o","s">>, <<"d","e","n","i","a","l"," ","o","f"," ","s","e","r","v","i","c","e">>, <<"g","a","s"," ","l","i","m","i","t">>, <<"b","l","o","c","k"," ","g","a","s">> >>],
       [key |-> <<"d","e","l","e","g","a","t","e","c","a","l","l">>,
        keywords |-> << <<"d","e","l","e","g","a","t","e","c","a","l","l">>, <<"p","r","o","x","y">>, <<"u","p","g","r","a","d","e","a","b","l","e">> >>],
       [key |-> <<"t","i","m","e","s","t","a","m","p">>,
        keywords |-> << <<"t","i","m","e","s","t","a","m","p">>, <<"b","l","o","c","k",".","t","i","m","e","s","t","a","m","p">>, <<"n","o","w">> >>],
       [key |-> <<"t","x","_","o","r","i","g","i","n">>,
        keywords |-> << <<"t","x",".","o","r","i","g","i","n">>, <<"t","r","a","n","s","a","c","t","i","o","n"," ","o","r","i","g","i","n">> >>],
       [key |-> <<"u","n","c","h","e","c","k","e","d">>,
        keywords |-> << <<"u","n","c","h","e","c","k","e","d">>, <<"r","e","t","u","r","n"," ","v","a","l","u","e">>, <<"c","a","l","l"," ","r","e","t","u","r","n">> >>] >>

\* auto_enhance.py:51-59
prevention_patterns ==
    << [pattern |-> <<"R","e","e","n","t","r","a","n","c","y","G","u","a","r","d">>,
        prevents |-> <<"r","e","e","n","t","r","a","n","c","y">>],
       [pattern |-> <<"n","o","n","R","e","e","n","t","r","a","n","t">>,
        prevents |-> <<"r","e","e","n","t","r","a","n","c","y">>],
       [pattern |-> <<"O","w","n","a","b","l","e">>,
        prevents |-> <<"a","c","c","e","s","s","_","c","o","n","t","r","o","l">>],
       [pattern |-> <<"A","c","c","e","s","s","C","o","n","t","r","o","l">>,
        prevents |-> <<"a","c","c","e","s","s","_","c","o","n","t","r","o","l">>],
       [pattern |-> <<"S","a","f","e","M","a","t","h">>,
        prevents |-> <<"i","n","t","e","g","e","r","_","o","v","e","r","f","l","o","w">>],
       [pattern |-> <<"P","a","u","s","a","b","l","e">>,
        prevents |-> <<"d","o","s">>],
       [pattern |-> <<"S","a","f","e","E","R","C","2","0">>,
        prevents |-> <<"u","n","c","h","e","c","k","e","d">>] >>

\* auto_enhance.py:302-308
domain_keywords ==
    << [domain |-> "DeFi",
        keywords |-> << <<"d","e","f","i">>, <<"s","w","a","p">>, <<"a","m","m">>, <<"d","e","x">>, <<"l","i","q","u","i","d","i","t","y">>, <<"y","i","e","l","d">>, <<"l","e","n","d","i","n","g">> >>],
       [domain |-> "NFT",
        keywords |-> << <<"n","f","t">>, <<"e","r","c","7","2","1">>, <<"e","r","c","1","1","5","5">>, <<"m","a","r","k","e","t","p","l","a","c","e">>, <<"c","o","l","l","e","c","t","i","b","l","e">> >>],
       [domain |-> "Gaming",
        keywords |-> << <<"g","a","m","e">>, <<"g","a","m","i","n","g">>, <<"v","r","f">>, <<"r","a","n","d","o","m">>, <<"a","c","h","i","e","v","e","m","e","n","t">> >>],
       [domain |-> "AI",
        keywords |-> << <<"a","i">>, <<"o","r","a","c","l","e">>, <<"c","h","a","i","n","l","i","n","k"," ","f","u","n","c","t","i","o","n","s">>, <<"a","u","t","o","m","a","t","i","o","n">> >>],
       [domain |-> "Governance",
        keywords |-> << <<"g","o","v","e","r","n","a","n","c","e">>, <<"d","a","o">>, <<"v","o","t","e">>, <<"p","r","o","p","o","s","a","l">>, <<"m","u","l","t","i","s","i","g">> >>] >>

\* enhance_knowledge_graph.py:111-126
mappings ==
    << [source_id |-> "vulnerable_reentrancy_bonus", target_id |-> "vuln_reentrancy", relationship_type |-> "DEMONSTRATES",
        properties |-> [context |-> "bonus tokens", variant |-> "cross-function"]],
       [source_id |-> "vulnerable_reentrancy_cross_function", target_id |-> "vuln_reentrancy", relationship_type |-> "DEMONSTRATES",
        properties |-> [context |-> "cross-function", variant |-> "multi-step"]],
       [source_id |-> "vulnerable_reentrancy", target_id |-> "vuln_reentrancy", relationship_type |-> "DEMONSTRATES",
        properties |-> [context |-> "basic reentrancy", year |-> 2016]],
       [source_id |-> "vulnerable_integer_overflow_1", target_id |-> "vuln_integer_overflow", relationship_type |-> "DEMONSTRATES",
        properties |-> [context |-> "arithmetic operations", year |-> 2016]],
       [source_id |-> "vulnerable_rubixi", target_id |-> "vuln_access_control", relationship_type |-> "DEMONSTRATES",
        properties |-> [exploit_name |-> "Rubixi", context |-> "constructor naming"]],
       [source_id |-> "vulnerable_delegatecall", target_id |-> "vuln_unsafe_delegatecall", relationship_type |-> "DEMONSTRATES",
        properties |-> [context |-> "unchecked delegatecall"]],
       [source_id |-> "vulnerable_timestamp", target_id |-> "vuln_timestamp_dependence", relationship_type |-> "DEMONSTRATES",
        properties |-> [context |-> "timestamp manipulation"]] >>

\* enhance_knowledge_graph.py:134-156
pairs ==
    << [source_id |-> "deepdive_uniswap_v2", target_id |-> "integration_uniswap_v2", relationship_type |-> "PAIRS_WITH",
        properties |-> [depth_ladder |-> "theory_to_practice"]],
       [source_id |-> "deepdive_uniswap_v3", target_id |-> "integration_uniswap_v3", relationship_type |-> "PAIRS_WITH",
        properties |-> [depth_ladder |-> "theory_to_practice"]],
       [source_id |-> "deepdive_uniswap_v4", target_id |-> "integration_uniswap_v4", relationship_type |-> "PAIRS_WITH",
        properties |-> [depth_ladder |-> "theory_to_practice"]],
       [source_id |-> "deepdive_curve", target_id |-> "integration_curve", relationship_type |-> "PAIRS_WITH",
        properties |-> [depth_ladder |-> "theory_to_practice"]],
       [source_id |-> "deepdive_alchemix", target_id |-> "integration_alchemix", relationship_type |-> "PAIRS_WITH",
        properties |-> [depth_ladder |-> "theory_to_practice"]],
       [source_id |-> "deepdive_liquity", target_id |-> "integration_liquity", relationship_type |-> "PAIRS_WITH",
        properties |-> [depth_ladder |-> "theory_to_practice"]],
       [source_id |-> "deepdive_synthetix", target_id |-> "integration_synthetix", relationship_type |-> "PAIRS_WITH",
        properties |-> [depth_ladder |-> "theory_to_practice"]],
       [source_id |-> "deepdive_seaport", target_id |-> "integration_seaport", relationship_type |-> "PAIRS_WITH",
        properties |-> [depth_ladder |-> "theory_to_practice"]],
       [source_id |-> "deepdive_chainlink", target_id |-> "integration_chainlink_datafeed", relationship_type |-> "PAIRS_WITH",
        properties |-> [depth_ladder |-> "theory_to_practice"]],
       [source_id |-> "deepdive_yearn", target_id |-> "integration_yearn", relationship_type |-> "PAIRS_WITH",
        properties |-> [depth_ladder |-> "theory_to_practice"]],
       [source_id |-> "deepdive_uniswap_v2", target_id |-> "integration_curve", relationship_type |-> "PAIRS_WITH",
        properties |-> [depth_ladder |-> "theory_to_practice"]],
       [source_id |-> "deepdive_uniswap_v3", target_id |-> "integration_yearn", relationship_type |-> "PAIRS_WITH",
        properties |-> [depth_ladder |-> "theory_to_practice"]],
       [source_id |-> "deepdive_synthetix", target_id |-> "integration_chainlink_vrf", relationship_type |-> "PAIRS_WITH",
        properties |-> [depth_ladder |-> "theory_to_practice"]],
       [source_id |-> "deepdive_yearn", target_id |-> "integration_alchemix", relationship_type |-> "PAIRS_WITH",
        properties |-> [depth_ladder |-> "theory_to_practice"]],
       [source_id |-> "deepdive_balancer", target_id |-> "integration_uniswap_v2", relationship_type |-> "PAIRS_WITH",
        properties |-> [depth_ladder |-> "theory_to_practice"]],
       [source_id |-> "deepdive_seaport", target_id |-> "integration_uniswap_v3", relationship_type |-> "PAIRS_WITH",
        properties |-> [depth_ladder |-> "theory_to_practice"]],
       [source_id |-> "deepdive_liquity", target_id |-> "integration_synthetix", relationship_type |-> "PAIRS_WITH",
        properties |-> [depth_ladder |-> "theory_to_practice"]],
       [source_id |-> "deepdive_chainlink", target_id |-> "integration_chainlink_automation", relationship_type |-> "PAIRS_WITH",
        properties |-> [depth_ladder |-> "theory_to_practice"]],
       [source_id |-> "deepdive_balancer", target_id |-> "integration_liquity", relationship_type |-> "PAIRS_WITH",
        properties |-> [depth_ladder |-> "theory_to_practice"]],
       [source_id |-> "deepdive_alchemix", target_id |-> "integration_yearn", relationship_type |-> "PAIRS_WITH",
        properties |-> [depth_ladder |-> "theory_to_practice"]] >>

\* enhance_knowledge_graph.py:165-208
template_preventions ==
    << [source_id |-> "template_secure_erc20", target_id |-> "vuln_reentrancy", relationship_type |-> "PREVENTS",
        properties |-> [mechanism |-> <<"R","e","e","n","t","r","a","n","c","y","G","u","a","r","d">>]],
       [source_id |-> "template_secure_erc20", target_id |-> "vuln_integer_overflow", relationship_type |-> "PREVENTS",
        properties |-> [mechanism |-> <<"S","a","f","e","M","a","t","h","/","S","o","l","i","d","i","t","y"," ","0",".","8","+">>]],
       [source_id |-> "template_secure_erc20", target_id |-> "vuln_access_control", relationship_type |-> "PREVENTS",
        properties |-> [mechanism |-> <<"O","w","n","a","b","l","e">>]],
       [source_id |-> "template_secure_erc20", target_id |-> "vuln_frontrunning", relationship_type |-> "PREVENTS",
        properties |-> [mechanism |-> <<"c","o","m","m","i","t","-","r","e","v","e","a","l">>]],
       [source_id |-> "template_secure_erc20", target_id |-> "vuln_flash_loan_attacks", relationship_type |-> "PREVENTS",
        properties |-> [mechanism |-> <<"b","a","l","a","n","c","e"," ","c","h","e","c","k","s">>]],
       [source_id |-> "template_secure_erc721", target_id |-> "vuln_reentrancy", relationship_type |-> "PREVENTS",
        properties |-> [mechanism |-> <<"R","e","e","n","t","r","a","n","c","y","G","u","a","r","d">>]],
       [source_id |-> "template_secure_erc721", target_id |-> "vuln_access_control", relationship_type |-> "PREVENTS",
        properties |-> [mechanism |-> <<"O","w","n","a","b","l","e">>]],
       [source_id |-> "template_secure_erc721", target_id |-> "vuln_integer_overflow", relationship_type |-> "PREVENTS",
        properties |-> [mechanism |-> <<"S","o","l","i","d","i","t","y"," ","0",".","8","+">>]],
       [source_id |-> "template_secure_erc721", target_id |-> "vuln_unsafe_delegatecall", relationship_type |-> "PREVENTS",
        properties |-> [mechanism |-> <<"s","a","f","e"," ","t","r","a","n","s","f","e","r","s">>]],
       [source_id |-> "template_access_control_template", target_id |-> "vuln_access_control", relationship_type |-> "PREVENTS",
        properties |-> [mechanism |-> <<"r","o","l","e","-","b","a","s","e","d"," ","a","c","c","e","s","s"," ","c","o","n","t","r","o","l">>]],
       [source_id |-> "template_access_control_template", target_id |-> "vuln_tx_origin", relationship_type |-> "PREVENTS",
        properties |-> [mechanism |-> <<"m","s","g",".","s","e","n","d","e","r"," ","c","h","e","c","k","s">>]],
       [source_id |-> "template_access_control_template", target_id |-> "vuln_insufficient_access_control", relationship_type |-> "PREVENTS",
        properties |-> [mechanism |-> <<"p","e","r","m","i","s","s","i","o","n"," ","v","a","l","i","d","a","t","i","o","n">>]],
       [source_id |-> "template_multisig_template", target_id |-> "vuln_access_control", relationship_type |-> "PREVENTS",
        properties |-> [mechanism |-> <<"m","u","l","t","i","-","s","i","g","n","a","t","u","r","e">>]],
       [source_id |-> "template_multisig_template", target_id |-> "vuln_insufficient_access_control", relationship_type |-> "PREVENTS",
        properties |-> [mechanism |-> <<"t","h","r","e","s","h","o","l","d"," ","v","e","r","i","f","i","c","a","t","i","o","n">>]],
       [source_id |-> "template_pausable_template", target_id |-> "vuln_dos_attacks", relationship_type |-> "PREVENTS",
        properties |-> [mechanism |-> <<"e","m","e","r","g","e","n","c","y"," ","p","a","u","s","e">>]],
       [source_id |-> "template_pausable_template", target_id |-> "vuln_dos_gas_limit", relationship_type |-> "PREVENTS",
        properties |-> [mechanism |-> <<"p","a","u","s","e"," ","a","l","l"," ","o","p","e","r","a","t","i","o","n","s">>]],
       [source_id |-> "template_upgradeable_template", target_id |-> "vuln_unsafe_delegatecall", relationship_type |-> "PREVENTS",
        properties |-> [mechanism |-> <<"p","r","o","x","y"," ","p","a","t","t","e","r","n">>]],
       [source_id |-> "template_upgradeable_template", target_id |-> "vuln_access_control", relationship_type |-> "PREVENTS",
        properties |-> [mechanism |-> <<"a","d","m","i","n"," ","c","o","n","t","r","o","l","s">>]],
       [source_id |-> "template_staking_template", target_id |-> "vuln_reentrancy", relationship_type |-> "PREVENTS",
        properties |-> [mechanism |-> <<"c","h","e","c","k","s","-","e","f","f","e","c","t","s","-","i","n","t","e","r","a","c","t","i","o","n","s">>]],
       [source_id |-> "template_staking_template", target_id |-> "vuln_integer_overflow", relationship_type |-> "PREVENTS",
        properties |-> [mechanism |-> <<"s","a","f","e"," ","a","r","i","t","h","m","e","t","i","c">>]],
       [source_id |-> "template_staking_template", target_id |-> "vuln_dos_attacks", relationship_type |-> "PREVENTS",
        properties |-> [mechanism |-> <<"p","u","l","l"," ","o","v","e","r"," ","p","u","s","h">>]] >>

\* enhance_knowledge_graph.py:217-269
deep_dive_explanations ==
    << [source_id |-> "deepdive_uniswap_v2", target_id |-> "vuln_frontrunning", relationship_type |-> "EXPLAINS",
        properties |-> [context |-> "sandwich attacks", severity |-> "high"]],
       [source_id |-> "deepdive_uniswap_v2", target_id |-> "vuln_flash_loan_attacks", relationship_type |-> "EXPLAINS",
        properties |-> [context |-> "price manipulation"]],
       [source_id |-> "deepdive_uniswap_v2", target_id |-> "vuln_reentrancy", relationship_type |-> "EXPLAINS",
        properties |-> [context |-> "pool interactions"]],
       [source_id |-> "deepdive_uniswap_v3", target_id |-> "vuln_frontrunning", relationship_type |-> "EXPLAINS",
        properties |-> [context |-> "MEV extraction"]],
       [source_id |-> "deepdive_uniswap_v3", target_id |-> "vuln_flash_loan_attacks", relationship_type |-> "EXPLAINS",
        properties |-> [context |-> "liquidity attacks"]],
       [source_id |-> "deepdive_uniswap_v3", target_id |-> "vuln_integer_overflow", relationship_type |-> "EXPLAINS",
        properties |-> [context |-> "position calculations"]],
       [source_id |-> "deepdive_uniswap_v4", target_id |-> "vuln_frontrunning", relationship_type |-> "EXPLAINS",
        properties |-> [context |-> "hooks manipulation"]],
       [source_id |-> "deepdive_uniswap_v4", target_id |-> "vuln_dos_attacks", relationship_type |-> "EXPLAINS",
        properties |-> [context |-> "hook complexity"]],
       [source_id |-> "deepdive_curve", target_id |-> "vuln_flash_loan_attacks", relationship_type |-> "EXPLAINS",
        properties |-> [context |-> "stablecoin depegging"]],
       [source_id |-> "deepdive_curve", target_id |-> "vuln_reentrancy", relationship_type |-> "EXPLAINS",
        properties |-> [context |-> "pool manipulation"]],
       [source_id |-> "deepdive_curve", target_id |-> "vuln_arithmetic_errors", relationship_type |-> "EXPLAINS",
        properties |-> [context |-> "curve calculations"]],
       [source_id |-> "deepdive_chainlink", target_id |-> "vuln_timestamp_dependence", relationship_type |-> "EXPLAINS",
        properties |-> [context |-> "oracle updates"]],
       [source_id |-> "deepdive_chainlink", target_id |-> "vuln_access_control", relationship_type |-> "EXPLAINS",
        properties |-> [context |-> "oracle access"]],
       [source_id |-> "deepdive_alchemix", target_id |-> "vuln_flash_loan_attacks", relationship_type |-> "EXPLAINS",
        properties |-> [context |-> "collateral manipulation"]],
       [source_id |-> "deepdive_alchemix", target_id |-> "vuln_integer_overflow", relationship_type |-> "EXPLAINS",
        properties |-> [context |-> "token math"]],
       [source_id |-> "deepdive_balancer", target_id |-> "vuln_reentrancy", relationship_type |-> "EXPLAINS",
        properties |-> [context |-> "vault interactions"]],
       [source_id |-> "deepdive_balancer", target_id |-> "vuln_flash_loan_attacks", relationship_type |-> "EXPLAINS",
        properties |-> [context |-> "pool balancing"]],
       [source_id |-> "deepdive_balancer", target_id |-> "vuln_frontrunning", relationship_type |-> "EXPLAINS",
        properties |-> [context |-> "swap ordering"]],
       [source_id |-> "deepdive_liquity", target_id |-> "vuln_flash_loan_attacks", relationship_type |-> "EXPLAINS",
        properties |-> [context |-> "stability pool"]],
       [source_id |-> "deepdive_liquity", target_id |-> "vuln_access_control", relationship_type |-> "EXPLAINS",
        properties |-> [context |-> "system access"]],
       [source_id |-> "deepdive_seaport", target_id |-> "vuln_frontrunning", relationship_type |-> "EXPLAINS",
        properties |-> [context |-> "order fulfillment"]],
       [source_id |-> "deepdive_seaport", target_id |-> "vuln_access_control", relationship_type |-> "EXPLAINS",
        properties |-> [context |-> "zone validation"]],
       [source_id |-> "deepdive_seaport", target_id |-> "vuln_unsafe_delegatecall", relationship_type |-> "EXPLAINS",
        properties |-> [context |-> "order execution"]],
       [source_id |-> "deepdive_synthetix", target_id |-> "vuln_frontrunning", relationship_type |-> "EXPLAINS",
        properties |-> [context |-> "price feeds"]],
       [source_id |-> "deepdive_synthetix", target_id |-> "vuln_flash_loan_attacks", relationship_type |-> "EXPLAINS",
        properties |-> [context |-> "debt pool"]],
       [source_id |-> "deepdive_synthetix", target_id |-> "vuln_timestamp_dependence", relationship_type |-> "EXPLAINS",
        properties |-> [context |-> "oracle timestamps"]],
       [source_id |-> "deepdive_yearn", target_id |-> "vuln_flash_loan_attacks", relationship_type |-> "EXPLAINS",
        properties |-> [context |-> "vault strategy"]],
       [source_id |-> "deepdive_yearn", target_id |-> "vuln_access_control", relationship_type |-> "EXPLAINS",
        properties |-> [context |-> "governance"]],
       [source_id |-> "deepdive_yearn", target_id |-> "vuln_reentrancy", relationship_type |-> "EXPLAINS",
        properties |-> [context |-> "strategy interactions"]] >>

\* enhance_knowledge_graph.py:278-304
integration_templates ==
    << [source_id |-> "integration_uniswap_v2", target_id |-> "template_secure_erc20", relationship_type |-> "USES",
        properties |-> [integration_type |-> "common_pattern"]],
       [source_id |-> "integration_uniswap_v3", target_id |-> "template_secure_erc20", relationship_type |-> "USES",
        properties |-> [integration_type |-> "common_pattern"]],
       [source_id |-> "integration_uniswap_v4", target_id |-> "template_secure_erc20", relationship_type |-> "USES",
        properties |-> [integration_type |-> "common_pattern"]],
       [source_id |-> "integration_curve", target_id |-> "template_secure_erc20", relationship_type |-> "USES",
        properties |-> [integration_type |-> "common_pattern"]],
       [source_id |-> "integration_alchemix", target_id |-> "template_secure_erc20", relationship_type |-> "USES",
        properties |-> [integration_type |-> "common_pattern"]],
       [source_id |-> "integration_liquity", target_id |-> "template_secure_erc20", relationship_type |-> "USES",
        properties |-> [integration_type |-> "common_pattern"]],
       [source_id |-> "integration_synthetix", target_id |-> "template_secure_erc20", relationship_type |-> "USES",
        properties |-> [integration_type |-> "common_pattern"]],
       [source_id |-> "integration_synthetix", target_id |-> "template_pausable_template", relationship_type |-> "USES",
        properties |-> [integration_type |-> "common_pattern"]],
       [source_id |-> "integration_yearn", target_id |-> "template_secure_erc20", relationship_type |-> "USES",
        properties |-> [integration_type |-> "common_pattern"]],
       [source_id |-> "integration_yearn", target_id |-> "template_staking_template", relationship_type |-> "USES",
        properties |-> [integration_type |-> "common_pattern"]],
       [source_id |-> "integration_yearn", target_id |-> "template_upgradeable_template", relationship_type |-> "USES",
        properties |-> [integration_type |-> "common_pattern"]],
       [source_id |-> "integration_seaport", target_id |-> "template_secure_erc721", relationship_type |-> "USES",
        properties |-> [integration_type |-> "common_pattern"]],
       [source_id |-> "integration_chainlink_datafeed", target_id |-> "template_secure_erc20", relationship_type |-> "USES",
        properties |-> [integration_type |-> "common_pattern"]],
       [source_id |-> "integration_chainlink_vrf", target_id |-> "template_secure_erc721", relationship_type |-> "USES",
        properties |-> [integration_type |-> "common_pattern"]],
       [source_id |-> "integration_chainlink_automation", target_id |-> "template_pausable_template", relationship_type |-> "USES",
        properties |-> [integration_type |-> "common_pattern"]] >>

\* enhance_knowledge_graph.py:314-325
relations ==
    << [source_id |-> "deepdive_seaport", target_id |-> "template_secure_erc721", relationship_type |-> "RELATES_TO",
        properties |-> [domain |-> "NFT", context |-> "marketplace"]],
       [source_id |-> "deepdive_yearn", target_id |-> "template_staking_template", relationship_type |-> "RELATES_TO",
        properties |-> [domain |-> "DeFi", context |-> "yield farming"]],
       [source_id |-> "deepdive_synthetix", target_id |-> "template_staking_template", relationship_type |-> "RELATES_TO",
        properties |-> [domain |-> "DeFi", context |-> "staking rewards"]],
       [source_id |-> "deepdive_yearn", target_id |-> "template_multisig_template", relationship_type |-> "RELATES_TO",
        properties |-> [context |-> "governance"]],
       [source_id |-> "deepdive_uniswap_v3", target_id |-> "template_upgradeable_template", relationship_type |-> "RELATES_TO",
        properties |-> [context |-> "proxy pattern"]] >>

\* ------------------------------------------------ KnowledgeGraph, the store

\* _init_database on a new file: the tables, empty
EmptyDb == [nodes |-> <<>>, edges |-> <<>>, search_index |-> <<>>, graph_metadata |-> <<>>]

\* a plain INSERT INTO nodes, with no primary key to replace on
_add_node_Insert(db, node_id, node_type, name, kb_source, file_path, data) ==
    [db EXCEPT
        !.nodes = Append(@, [id |-> node_id, type |-> node_type, name |-> name,
                             kb_source |-> kb_source, file_path |-> file_path,
                             data |-> JsonDumps(data)]),
        !.search_index = Append(@, [entity_id |-> node_id,
                                    content |-> <<name, file_path, JsonDumps(data)>>,
                                    tags |-> <<node_type, kb_source>>])]

\* the replace taking the edges of the replaced row with it
_add_node_Cascade(db, node_id, node_type, name, kb_source, file_path, data) ==
    [db EXCEPT
        !.nodes = Append(SelectSeq(@, LAMBDA row : row.id # node_id),
                         [id |-> node_id, type |-> node_type, name |-> name,
                          kb_source |-> kb_source, file_path |-> file_path,
                          data |-> JsonDumps(data)]),
        !.edges = SelectSeq(@, LAMBDA e : e.source_id # node_id /\ e.target_id # node_id),
        !.search_index = Append(@, [entity_id |-> node_id,
                                    content |-> <<name, file_path, JsonDumps(data)>>,
                                    tags |-> <<node_type, kb_source>>])]

\* INSERT OR REPLACE INTO nodes: id is the primary key, so a row with the
\* same id is deleted before the new row is inserted; then the plain INSERT
\* INTO search_index
_add_node(db, node_id, node_type, name, kb_source, file_path, data) ==
    [db EXCEPT
        !.nodes = Append(SelectSeq(@, LAMBDA row : row.id # node_id),
                         [id |-> node_id, type |-> node_type, name |-> name,
                          kb_source |-> kb_source, file_path |-> file_path,
                          data |-> JsonDumps(data)]),
        !.search_index = Append(@, [entity_id |-> node_id,
                                    content |-> <<name, file_path, JsonDumps(data)>>,
                                    tags |-> <<node_type, kb_source>>])]

\* INSERT INTO edges: the row id is the position; the connection never sets
\* PRAGMA foreign_keys, so the FOREIGN KEY clauses are not enforced
_add_edge(db, source_id, target_id, relationship_type, properties) ==
    [db EXCEPT
        !.edges = Append(@, [source_id |-> source_id, target_id |-> target_id,
                             relationship_type |-> relationship_type,
                             properties |-> JsonDumps(properties)])]

\* the SELECT without its WHERE clause
find_by_type_All(db, node_type) == db.nodes

\* SELECT * FROM nodes WHERE type = ?
find_by_type(db, node_type) == SelectSeq(db.nodes, LAMBDA row : row.type = node_type)

\* SELECT COUNT(*) FROM nodes WHERE id = ?
CountNodes(db, node_id) == Cardinality({i \in DOMAIN db.nodes : db.nodes[i].id = node_id})

\* the lookup without the relationship type
CountEdges_AnyType(db, source_id, target_id, relationship_type) ==
    Cardinality({i \in DOMAIN db.edges :
                    /\ db.edges[i].source_id = source_id
                    /\ db.edges[i].target_id = target_id})

\* SELECT COUNT(*) FROM edges WHERE source_id = ? AND target_id = ? AND relationship_type = ?
CountEdges(db, source_id, target_id, relationship_type) ==
    Cardinality({i \in DOMAIN db.edges :
                    /\ db.edges[i].source_id = source_id
                    /\ db.edges[i].target_id = target_id
                    /\ db.edges[i].relationship_type = relationship_type})

\* the category -> node type and kb_source of index_from_metadata, in its order
Categories ==
    << [key |-> "vulnerabilities", node_type |-> "Vulnerability", kb_source |-> "action"],
       [key |-> "templates", node_type |-> "Template", kb_source |-> "action"],
       [key |-> "deepdives", node_type |-> "DeepDive", kb_source |-> "research"],
       [key |-> "integrations", node_type |-> "Integration", kb_source |-> "research"],
       [key |-> "vulnerable_contracts", node_type |-> "VulnerableContract",
        kb_source |-> "research"] >>

\* one loop of index_from_metadata: _add_node for each item of a category
RECURSIVE IndexEntities(_, _, _)
IndexEntities(db, cat, items) ==
    IF items = <<>> THEN db
    ELSE IndexEntities(
            _add_node(db, Head(items).id, cat.node_type,
                      Get(Head(items).entity, "name", None), cat.kb_source,
                      Get(Head(items).entity, "file_path", None), Head(items).entity),
            cat, Tail(items))

RECURSIVE IndexCategories(_, _, _)
IndexCategories(db, md, cats) ==
    IF cats = <<>> THEN db
    ELSE IndexCategories(
            IndexEntities(db, Head(cats), Get(md.entities, Head(cats).key, <<>>)),
            md, Tail(cats))

\* the relationships loop of index_from_metadata: _add_edge for each record
RECURSIVE IndexRelationships(_, _)
IndexRelationships(db, rels) ==
    IF rels = <<>> THEN db
    ELSE IndexRelationships(
            _add_edge(db, Head(rels).source, Head(rels).target, Head(rels).type,
                      Get(Head(rels), "properties", EmptyDict)),
            Tail(rels))

index_from_metadata(db, md) ==
    IndexRelationships(IndexCategories(db, md, Categories), md.relationships)

RECURSIVE SumOver(_, _)
SumOver(f, keys) ==
    IF keys = {} THEN 0
    ELSE LET k == CHOOSE x \in keys : TRUE IN f[k] + SumOver(f, keys \ {k})

\* the totals taken as the number of groups
get_statistics_CountGroups(db) ==
    LET nodes_by_type ==
            [t \in {db.nodes[i].type : i \in DOMAIN db.nodes} |->
                Cardinality({i \in DOMAIN db.nodes : db.nodes[i].type = t})]
        edges_by_type ==
            [t \in {db.edges[i].relationship_type : i \in DOMAIN db.edges} |->
                Cardinality({i \in DOMAIN db.edges : db.edges[i].relationship_type = t})]
        nodes_by_kb ==
            [k \in {db.nodes[i].kb_source : i \in DOMAIN db.nodes} |->
                Cardinality({i \in DOMAIN db.nodes : db.nodes[i].kb_source = k})]
    IN  [nodes_by_type |-> nodes_by_type,
         edges_by_type |-> edges_by_type,
         nodes_by_kb |-> nodes_by_kb,
         total_nodes |-> Cardinality(DOMAIN nodes_by_type),
         total_edges |-> Cardinality(DOMAIN edges_by_type)]

\* get_statistics: the GROUP BY counts and the totals summed from them
get_statistics(db) ==
    LET nodes_by_type ==
            [t \in {db.nodes[i].type : i \in DOMAIN db.nodes} |->
                Cardinality({i \in DOMAIN db.nodes : db.nodes[i].type = t})]
        edges_by_type ==
            [t \in {db.edges[i].relationship_type : i \in DOMAIN db.edges} |->
                Cardinality({i \in DOMAIN db.edges : db.edges[i].relationship_type = t})]
        nodes_by_kb ==
            [k \in {db.nodes[i].kb_source : i \in DOMAIN db.nodes} |->
                Cardinality({i \in DOMAIN db.nodes : db.nodes[i].kb_source = k})]
    IN  [nodes_by_type |-> nodes_by_type,
         edges_by_type |-> edges_by_type,
         nodes_by_kb |-> nodes_by_kb,
         total_nodes |-> SumOver(nodes_by_type, DOMAIN nodes_by_type),
         total_edges |-> SumOver(edges_by_type, DOMAIN edges_by_type)]

\* an optional argument: None, or a value
Absent == <<>>
Some(value) == <<value>>

\* json_extract(data, '$.key'): the value stored under the key, NULL (Absent)
\* when the payload has no such key
json_extract(data, key) ==
    IF key \in DOMAIN JsonLoads(data) THEN Some(JsonLoads(data)[key]) ELSE Absent

\* find_vulnerabilities: the Vulnerability nodes; a filter is added to the
\* query only when its argument is truthy (not None, not "", not 0), and a
\* comparison with NULL selects nothing
find_vulnerabilities(db, severity, min_loss) ==
    LET BySeverity(row) ==
            (severity # Absent /\ severity[1] # <<>>)
                => json_extract(row.data, "severity") = severity
        ByLoss(row) ==
            (min_loss # Absent /\ min_loss[1] # 0)
                => LET loss == json_extract(row.data, "historical_losses_usd")
                   IN  loss # Absent /\ loss[1] >= min_loss[1]
    IN  SelectSeq(db.nodes, LAMBDA row :
            row.type = "Vulnerability" /\ BySeverity(row) /\ ByLoss(row))

\* the text of the identifiers, node types, sources and payload keys, as the
\* index holds them
Spelling ==
    [
     vuln_reentrancy |-> <<"v","u","l","n","_","r","e","e","n","t","r","a","n","c","y">>,
     vuln_overflow |-> <<"v","u","l","n","_","o","v","e","r","f","l","o","w">>,
     template_secure_erc20 |-> <<"t","e","m","p","l","a","t","e","_","s","e","c","u","r",
          "e","_","e","r","c","2","0">>,
     vulnerable_vault |-> <<"v","u","l","n","e","r","a","b","l","e","_","v","a","u","l",
          "t">>,
     vulnerable_token |-> <<"v","u","l","n","e","r","a","b","l","e","_","t","o","k","e",
          "n">>,
     Vulnerability |-> <<"V","u","l","n","e","r","a","b","i","l","i","t","y">>,
     Template |-> <<"T","e","m","p","l","a","t","e">>,
     DeepDive |-> <<"D","e","e","p","D","i","v","e">>,
     Integration |-> <<"I","n","t","e","g","r","a","t","i","o","n">>,
     VulnerableContract |-> <<"V","u","l","n","e","r","a","b","l","e","C","o","n","t","r",
          "a","c","t">>,
     action |-> <<"a","c","t","i","o","n">>,
     research |-> <<"r","e","s","e","a","r","c","h">>,
     name |-> <<"n","a","m","e">>,
     file_path |-> <<"f","i","l","e","_","p","a","t","h">>,
     severity |-> <<"s","e","v","e","r","i","t","y">>,
     historical_losses_usd |-> <<"h","i","s","t","o","r","i","c","a","l","_","l","o","s",
          "s","e","s","_","u","s","d">>,
     description |-> <<"d","e","s","c","r","i","p","t","i","o","n">>,
     vulnerability_type |-> <<"v","u","l","n","e","r","a","b","i","l","i","t","y","_","t",
          "y","p","e">>]

\* the keys of a payload, in the order json.dumps writes them, and those of
\* them whose value is a number
PayloadKeys == <<"name", "file_path", "severity", "historical_losses_usd",
                 "description", "vulnerability_type">>
NumericKeys == {"historical_losses_usd"}

DecimalDigits == <<"0","1","2","3","4","5","6","7","8","9">>

\* the decimal text of a natural number
RECURSIVE Decimal(_)
Decimal(n) ==
    IF n < 10 THEN <<DecimalDigits[n + 1]>>
    ELSE Append(Decimal(n \div 10), DecimalDigits[(n % 10) + 1])

\* the unicode61 tokenizer of the index on ASCII text: the runs of letters
\* and digits, in lower case
TokenChars == {c \in WordChars : c # "_"}

RECURSIVE TokensAt(_, _)
TokensAt(s, starts) ==
    IF starts = <<>> THEN <<>>
    ELSE LET p == Head(starts)
             q == CHOOSE q \in p..Len(s) :
                        /\ \A r \in p..q : s[r] \in TokenChars
                        /\ q = Len(s) \/ s[q + 1] \notin TokenChars
         IN  <<Lower(SubSeq(s, p, q))>> \o TokensAt(s, Tail(starts))

Tokens(s) ==
    TokensAt(s, SelectSeq([p \in DOMAIN s |-> p], LAMBDA p :
                    s[p] \in TokenChars /\ (p = 1 \/ s[p - 1] \notin TokenChars)))

\* the tokens of json.dumps(data), for text without quotes, backslashes or
\* characters outside ASCII: each key followed by its value
JsonTokens(data) ==
    Flatten([i \in DOMAIN PayloadKeys |->
        LET key == PayloadKeys[i]
        IN  IF key \notin DOMAIN data THEN <<>>
            ELSE Tokens(Spelling[key])
                    \o (IF key \in NumericKeys THEN Tokens(Decimal(data[key]))
                        ELSE Tokens(data[key]))])

\* the tokens of the three columns of a row of the index:
\* entity_id, content = f"{name} {file_path} {json.dumps(data)}",
\* tags = f"{node_type} {kb_source}"
IndexColumns(row) ==
    <<Tokens(Spelling[row.entity_id]),
      Tokens(row.content[1]) \o Tokens(row.content[2])
            \o JsonTokens(JsonLoads(row.content[3])),
      Tokens(Spelling[row.tags[1]]) \o Tokens(Spelling[row.tags[2]])>>

\* the occurrences of a phrase in the tokens of a column
PhraseCount(col, phrase) ==
    Cardinality({p \in 1..(Len(col) - Len(phrase) + 1) :
                    SubSeq(col, p, p + Len(phrase) - 1) = phrase})

\* the words of the query language
FtsKeywords == {<<"A","N","D">>, <<"O","R">>, <<"N","O","T">>}

\* a query without spaces, quotes or operators of the query language is one
\* bareword, made of letters, digits and "_", and not a keyword; anything
\* else of that kind is a syntax error
IsBareword(query) ==
    /\ query # <<>>
    /\ \A i \in DOMAIN query : query[i] \in WordChars
    /\ query \notin FtsKeywords

\* ORDER BY rank is the bm25 of the index with its default weights: with f
\* the occurrences of the phrase in a row, D the tokens of the row, N the rows
\* and T the tokens of the index, the rank of a row is
\* -idf * 2.2 f / (f + 0.3 + 0.9 D N / T), idf the same for all rows, so a row
\* comes before another when its f * (T + 3 N D') is the larger; rows of equal
\* rank come in the order of the index.

\* f and D of a row, from the tokens of its columns
RowCounts(cols, phrase) ==
    [f |-> PhraseCount(cols[1], phrase) + PhraseCount(cols[2], phrase)
                + PhraseCount(cols[3], phrase),
     D |-> Len(cols[1]) + Len(cols[2]) + Len(cols[3])]

\* f and D of every row of the index
RECURSIVE IndexCounts(_, _)
IndexCounts(rows, phrase) ==
    IF rows = <<>> THEN <<>>
    ELSE <<RowCounts(IndexColumns(Head(rows)), phrase)>>
            \o IndexCounts(Tail(rows), phrase)

\* the matched rows, the best rank first
RECURSIVE RankOrder(_, _, _, _)
RankOrder(matched, counts, N, T) ==
    IF matched = {} THEN <<>>
    ELSE LET Weight(i, j) == counts[i].f * (T + 3 * N * counts[j].D)
             Precedes(i, j) == \/ Weight(i, j) > Weight(j, i)
                               \/ Weight(i, j) = Weight(j, i) /\ i < j
             first == CHOOSE i \in matched : \A j \in matched \ {i} : Precedes(i, j)
         IN  <<first>> \o RankOrder(matched \ {first}, counts, N, T)

\* search(query, limit) for a query without spaces, quotes or operators: the
\* bareword is the phrase of its tokens; every row of the index that has the
\* phrase is joined with the node of its entity_id, and the first limit rows
\* by rank are returned
search(db, query, limit) ==
    LET rows == db.search_index
        phrase == Tokens(query)
        counts == IndexCounts(rows, phrase)
        N == Len(rows)
        T == SumOver([i \in DOMAIN rows |-> counts[i].D], DOMAIN rows)
        matched == {i \in DOMAIN rows :
                        /\ phrase # <<>>
                        /\ counts[i].f > 0
                        /\ \E j \in DOMAIN db.nodes : db.nodes[j].id = rows[i].entity_id}
        order == RankOrder(matched, counts, N, T)
        Node(i) == db.nodes[CHOOSE j \in DOMAIN db.nodes :
                                db.nodes[j].id = rows[i].entity_id]
    IN  IF ~IsBareword(query) THEN [error |-> "OperationalError", rows |-> <<>>]
        ELSE [error |-> "",
              rows |-> [k \in 1..(IF limit < Len(order) THEN limit ELSE Len(order)) |->
                          Node(order[k]) @@
                            [rank |-> [f |-> counts[order[k]].f, D |-> counts[order[k]].D,
                                       N |-> N, T |-> T]]]]

\* get_related: the join of the edges at node_id with the nodes at their
\* two ends, node_id itself left out; the filter on the relationship type is
\* added when the argument is given and is not the empty string
get_related(db, node_id, relationship_type) ==
    LET Joined(e, n) ==
            /\ e.target_id = n.id \/ e.source_id = n.id
            /\ e.source_id = node_id \/ e.target_id = node_id
            /\ n.id # node_id
            /\ (relationship_type # Absent /\ relationship_type[1] # "")
                    => e.relationship_type = relationship_type[1]
        PerEdge(e) ==
            Flatten([j \in DOMAIN db.nodes |->
                        IF Joined(e, db.nodes[j])
                        THEN <<db.nodes[j] @@ [relationship_type |-> e.relationship_type]>>
                        ELSE <<>>])
    IN  Flatten([i \in DOMAIN db.edges |-> PerEdge(db.edges[i])])

\* the lookup that takes an edge in either direction
get_path_EitherWay(db, source_id, target_id, max_depth) ==
    LET Joined(e, s, t) ==
            /\ e.source_id = s.id
            /\ e.target_id = t.id
            /\ \/ e.source_id = source_id /\ e.target_id = target_id
               \/ e.source_id = target_id /\ e.target_id = source_id
        PerEdge(e) ==
            Flatten([i \in DOMAIN db.nodes |->
                Flatten([j \in DOMAIN db.nodes |->
                    IF Joined(e, db.nodes[i], db.nodes[j])
                    THEN <<e @@ [source_name |-> db.nodes[i].name,
                                 target_name |-> db.nodes[j].name]>>
                    ELSE <<>>])])
        rows == Flatten([k \in DOMAIN db.edges |-> PerEdge(db.edges[k])])
    IN  IF rows # <<>> THEN <<<<Head(rows)>>>> ELSE <<>>

\* get_path: the first edge from source_id to target_id whose two ends are
\* stored nodes, as the only path; max_depth is not read
get_path(db, source_id, target_id, max_depth) ==
    LET Joined(e, s, t) ==
            /\ e.source_id = s.id
            /\ e.target_id = t.id
            /\ e.source_id = source_id
            /\ e.target_id = target_id
        PerEdge(e) ==
            Flatten([i \in DOMAIN db.nodes |->
                Flatten([j \in DOMAIN db.nodes |->
                    IF Joined(e, db.nodes[i], db.nodes[j])
                    THEN <<e @@ [source_name |-> db.nodes[i].name,
                                 target_name |-> db.nodes[j].name]>>
                    ELSE <<>>])])
        rows == Flatten([k \in DOMAIN db.edges |-> PerEdge(db.edges[k])])
    IN  IF rows # <<>> THEN <<<<Head(rows)>>>> ELSE <<>>

\* ------------------------------------------- AutoEnhancer (auto_enhance.py)

\* self.stats as __init__ sets it
InitStats == [edges_before |-> 0, edges_added |-> 0, edges_by_type |-> EmptyDict]

\* the counter of all edges alone
CountAdded_Total(st, relationship_type) ==
    [st EXCEPT !.edges_added = @ + 1]

\* the counters _add_edge_safe moves on an insert
CountAdded(st, relationship_type) ==
    [st EXCEPT
        !.edges_added = @ + 1,
        !.edges_by_type =
            IF relationship_type \in DOMAIN @
            THEN [@ EXCEPT ![relationship_type] = @ + 1]
            ELSE @ @@ (relationship_type :> 1)]

\* an upsert: a stored edge with the triple is deleted and inserted anew
Auto_add_edge_safe_Upsert(s, source_id, target_id, relationship_type, properties) ==
    IF CountNodes(s.db, source_id) = 0 THEN [s EXCEPT !.ret = FALSE]
    ELSE IF CountNodes(s.db, target_id) = 0 THEN [s EXCEPT !.ret = FALSE]
    ELSE IF CountEdges(s.db, source_id, target_id, relationship_type) = 0
         THEN [db |-> _add_edge(s.db, source_id, target_id, relationship_type, properties),
               stats |-> CountAdded(s.stats, relationship_type),
               ret |-> TRUE]
         ELSE [s EXCEPT
                !.db = _add_edge(
                    [s.db EXCEPT !.edges =
                        SelectSeq(@, LAMBDA e :
                            ~(/\ e.source_id = source_id
                              /\ e.target_id = target_id
                              /\ e.relationship_type = relationship_type))],
                    source_id, target_id, relationship_type, properties),
                !.ret = FALSE]

\* AutoEnhancer._add_edge_safe on s = [db, stats]: both endpoints are looked
\* up, then the triple; ret is the value returned
Auto_add_edge_safe(s, source_id, target_id, relationship_type, properties) ==
    IF CountNodes(s.db, source_id) = 0 THEN [s EXCEPT !.ret = FALSE]
    ELSE IF CountNodes(s.db, target_id) = 0 THEN [s EXCEPT !.ret = FALSE]
    ELSE IF CountEdges(s.db, source_id, target_id, relationship_type) = 0
         THEN [db |-> _add_edge(s.db, source_id, target_id, relationship_type, properties),
               stats |-> CountAdded(s.stats, relationship_type),
               ret |-> TRUE]
         ELSE [s EXCEPT !.ret = FALSE]

\* the calls a pass makes, in order; call = [source_id, target_id,
\* relationship_type, properties]
RECURSIVE AutoCalls(_, _)
AutoCalls(s, calls) ==
    IF calls = <<>> THEN s
    ELSE LET added == Auto_add_edge_safe(s, Head(calls).source_id, Head(calls).target_id,
                                         Head(calls).relationship_type,
                                         Head(calls).properties)
         IN  IF added.ret
             THEN AutoCalls(added, Tail(calls))   \* the line printed for an edge added
             ELSE AutoCalls(added, Tail(calls))

Call(source_id, target_id, relationship_type, properties) ==
    [source_id |-> source_id, target_id |-> target_id,
     relationship_type |-> relationship_type, properties |-> properties]

\* the outcome of a pass: it returned, or an exception left it
Returned(s) == [ok |-> TRUE, db |-> s.db, stats |-> s.stats]
Raised(s) == [ok |-> FALSE, db |-> s.db, stats |-> s.stats]

\* Path(p).exists(), and Path(p).read_text() of a file that can be read
Exists(fs, path) == path \in DOMAIN fs.content \/ path \in fs.unreadable
read_text(fs, path) == fs.content[path]

\* _name_similarity as the fraction <<numerator, denominator>>
_name_similarity(name1, name2) ==
    LET name1_words == Words(Lower(name1))
        name2_words == Words(Lower(name2))
    IN  IF name1_words = {} \/ name2_words = {} THEN <<0, 1>>
        ELSE <<Cardinality(name1_words \cap name2_words),
               Cardinality(name1_words \cup name2_words)>>

\* similarity > 0.5, on the fraction
AboveThreshold(sim) == sim[1] + sim[1] > sim[2]

\* .lower() of a column that holds None raises AttributeError
_auto_detect_demonstrates(s) ==
    LET vulnerable_contracts == find_by_type(s.db, "VulnerableContract")
        vulnerabilities == find_by_type(s.db, "Vulnerability")
        Match(vc, vuln) ==
            LET vuln_name == Replace(Lower(vuln.name), <<" ">>, <<"_">>)
            IN  \/ Contains(vuln_name, Lower(vc.name))
                \/ Contains(vuln_name, Lower(vc.file_path))
        PerVc(vc) ==
            Flatten([j \in DOMAIN vulnerabilities |->
                        IF Match(vc, vulnerabilities[j])
                        THEN <<Call(vc.id, vulnerabilities[j].id, "DEMONSTRATES",
                                    [auto_detected |-> TRUE])>>
                        ELSE <<>>])
    IN  IF \E i \in DOMAIN vulnerable_contracts : vulnerable_contracts[i].file_path = None
        THEN Raised(s)
        ELSE Returned(AutoCalls(s, Flatten([i \in DOMAIN vulnerable_contracts |->
                                                PerVc(vulnerable_contracts[i])])))

_auto_detect_pairs(s) ==
    LET deep_dives == find_by_type(s.db, "DeepDive")
        integrations == find_by_type(s.db, "Integration")
        Match(dd, integ) ==
            LET dd_protocol == Lower(Get(JsonLoads(dd.data), "protocol", <<>>))
                integ_protocol == Lower(Get(JsonLoads(integ.data), "protocol", <<>>))
            IN  \/ dd_protocol # <<>> /\ Contains(dd_protocol, integ_protocol)
                \/ dd_protocol # <<>> /\ Contains(integ_protocol, dd_protocol)
                \/ AboveThreshold(_name_similarity(Lower(dd.name), Lower(integ.name)))
        PerDd(dd) ==
            Flatten([j \in DOMAIN integrations |->
                        IF Match(dd, integrations[j])
                        THEN <<Call(dd.id, integrations[j].id, "PAIRS_WITH",
                                    [depth_ladder |-> "theory_to_practice",
                                     auto_detected |-> TRUE])>>
                        ELSE <<>>])
    IN  Returned(AutoCalls(s, Flatten([i \in DOMAIN deep_dives |-> PerDd(deep_dives[i])])))

\* Path(None) raises TypeError; read_text() of a file that exists and cannot
\* be read raises; a file that does not exist is skipped
DocumentRaises(fs, rows) ==
    \E i \in DOMAIN rows :
        \/ rows[i].file_path = None
        \/ Exists(fs, rows[i].file_path) /\ rows[i].file_path \notin DOMAIN fs.content

\* if mentions >= 2
MentionsThreshold == 2

\* self.vulnerability_keywords.get(key, default)
KeywordsOf(key, default) ==
    IF \E i \in DOMAIN vulnerability_keywords : vulnerability_keywords[i].key = key
    THEN vulnerability_keywords[
            CHOOSE i \in DOMAIN vulnerability_keywords :
                vulnerability_keywords[i].key = key].keywords
    ELSE default

\* the pass, storing what the marker prevents for the marker itself
_auto_detect_prevents_Category(s, fs) ==
    LET templates == find_by_type(s.db, "Template")
        vulnerabilities == find_by_type(s.db, "Vulnerability")
        PerPattern(template, content, vuln) ==
            Flatten([k \in DOMAIN prevention_patterns |->
                        IF /\ Contains(Lower(prevention_patterns[k].pattern), content)
                           /\ Contains(prevention_patterns[k].prevents,
                                       Replace(Lower(vuln.name), <<" ">>, <<"_">>))
                        THEN <<Call(template.id, vuln.id, "PREVENTS",
                                    [mechanism |-> prevention_patterns[k].prevents,
                                     auto_detected |-> TRUE])>>
                        ELSE <<>>])
        PerTemplate(template) ==
            IF Exists(fs, template.file_path)
            THEN Flatten([j \in DOMAIN vulnerabilities |->
                            PerPattern(template, Lower(read_text(fs, template.file_path)),
                                       vulnerabilities[j])])
            ELSE <<>>
    IN  IF DocumentRaises(fs, templates)
        THEN Raised(s)
        ELSE Returned(AutoCalls(s, Flatten([i \in DOMAIN templates |->
                                                PerTemplate(templates[i])])))

\* the first marker of a template that prevents a vulnerability makes the edge
_auto_detect_prevents(s, fs) ==
    LET templates == find_by_type(s.db, "Template")
        vulnerabilities == find_by_type(s.db, "Vulnerability")
        PerPattern(template, content, vuln) ==
            Flatten([k \in DOMAIN prevention_patterns |->
                        IF /\ Contains(Lower(prevention_patterns[k].pattern), content)
                           /\ Contains(prevention_patterns[k].prevents,
                                       Replace(Lower(vuln.name), <<" ">>, <<"_">>))
                        THEN <<Call(template.id, vuln.id, "PREVENTS",
                                    [mechanism |-> prevention_patterns[k].pattern,
                                     auto_detected |-> TRUE])>>
                        ELSE <<>>])
        PerTemplate(template) ==
            IF Exists(fs, template.file_path)
            THEN Flatten([j \in DOMAIN vulnerabilities |->
                            PerPattern(template, Lower(read_text(fs, template.file_path)),
                                       vulnerabilities[j])])
            ELSE <<>>
    IN  IF DocumentRaises(fs, templates)
        THEN Raised(s)
        ELSE Returned(AutoCalls(s, Flatten([i \in DOMAIN templates |->
                                                PerTemplate(templates[i])])))

_auto_detect_explains(s, fs) ==
    LET deep_dives == find_by_type(s.db, "DeepDive")
        vulnerabilities == find_by_type(s.db, "Vulnerability")
        Mentions(content, vuln) ==
            LET vuln_name == Lower(vuln.name)
                vuln_keywords == KeywordsOf(Replace(vuln_name, <<" ">>, <<"_">>),
                                            <<vuln_name>>)
            IN  Cardinality({i \in DOMAIN vuln_keywords :
                                Contains(vuln_keywords[i], content)})
        PerDd(dd) ==
            IF Exists(fs, dd.file_path)
            THEN Flatten([j \in DOMAIN vulnerabilities |->
                            LET mentions == Mentions(Lower(read_text(fs, dd.file_path)),
                                                     vulnerabilities[j])
                            IN  IF mentions >= MentionsThreshold
                                THEN <<Call(dd.id, vulnerabilities[j].id, "EXPLAINS",
                                            [mentions |-> mentions,
                                             auto_detected |-> TRUE])>>
                                ELSE <<>>])
            ELSE <<>>
    IN  IF DocumentRaises(fs, deep_dives)
        THEN Raised(s)
        ELSE Returned(AutoCalls(s, Flatten([i \in DOMAIN deep_dives |-> PerDd(deep_dives[i])])))

_auto_detect_uses(s, fs) ==
    LET integrations == find_by_type(s.db, "Integration")
        templates == find_by_type(s.db, "Template")
        Uses(integ, template, integration_type) ==
            <<Call(integ.id, template.id, "USES",
                   [integration_type |-> integration_type, auto_detected |-> TRUE])>>
        PerTemplate(integ, content, template) ==
            LET template_name == Replace(Lower(template.name), <<".","s","o","l">>, <<>>)
            IN  IF /\ Contains(<<"e","r","c","2","0">>, template_name)
                   /\ Contains(<<"e","r","c","2","0">>, content)
                THEN Uses(integ, template, "token")
                ELSE IF /\ Contains(<<"e","r","c","7","2","1">>, template_name)
                        /\ \/ Contains(<<"e","r","c","7","2","1">>, content)
                           \/ Contains(<<"n","f","t">>, content)
                THEN Uses(integ, template, "nft")
                ELSE IF /\ Contains(<<"u","p","g","r","a","d","e","a","b","l","e">>,
                                    template_name)
                        /\ \/ Contains(<<"p","r","o","x","y">>, content)
                           \/ Contains(<<"u","p","g","r","a","d","e","a","b","l","e">>,
                                       content)
                THEN Uses(integ, template, "upgradeable")
                ELSE <<>>
        PerInteg(integ) ==
            IF Exists(fs, integ.file_path)
            THEN Flatten([j \in DOMAIN templates |->
                            PerTemplate(integ, Lower(read_text(fs, integ.file_path)),
                                        templates[j])])
            ELSE <<>>
    IN  IF DocumentRaises(fs, integrations)
        THEN Raised(s)
        ELSE Returned(AutoCalls(s, Flatten([i \in DOMAIN integrations |->
                                                PerInteg(integrations[i])])))

_auto_detect_relates(s) ==
    LET deep_dives == find_by_type(s.db, "DeepDive")
        templates == find_by_type(s.db, "Template")
        Relates(dd, template, domain) ==
            <<Call(dd.id, template.id, "RELATES_TO",
                   [domain |-> domain, auto_detected |-> TRUE])>>
        PerTemplate(dd, template) ==
            LET dd_name == Lower(dd.name)
                template_name == Lower(template.name)
            IN  IF /\ \/ Contains(<<"n","f","t">>, dd_name)
                      \/ Contains(<<"s","e","a","p","o","r","t">>, dd_name)
                   /\ Contains(<<"e","r","c","7","2","1">>, template_name)
                THEN Relates(dd, template, "NFT")
                ELSE IF /\ \/ Contains(<<"d","e","f","i">>, dd_name)
                           \/ Contains(<<"u","n","i","s","w","a","p">>, dd_name)
                           \/ Contains(<<"c","u","r","v","e">>, dd_name)
                        /\ Contains(<<"e","r","c","2","0">>, template_name)
                THEN Relates(dd, template, "DeFi")
                ELSE IF /\ \/ Contains(<<"s","t","a","k","i","n","g">>, dd_name)
                           \/ Contains(<<"y","i","e","l","d">>, dd_name)
                           \/ Contains(<<"y","e","a","r","n">>, dd_name)
                        /\ Contains(<<"s","t","a","k","i","n","g">>, template_name)
                THEN Relates(dd, template, "Staking")
                ELSE <<>>
        PerDd(dd) == Flatten([j \in DOMAIN templates |-> PerTemplate(dd, templates[j])])
    IN  Returned(AutoCalls(s, Flatten([i \in DOMAIN deep_dives |-> PerDd(deep_dives[i])])))

\* node_data[key] = value
SetKey(d, key, value) ==
    [k \in DOMAIN d \cup {key} |-> IF k = key THEN value ELSE d[k]]

\* the domain loop for one node: every matching domain of the table, in
\* order, overwrites node_data['inferred_domain'] (there is no break)
RECURSIVE TagDomains(_, _, _, _)
TagDomains(node_data, node_name, node_path, domains) ==
    IF domains = <<>> THEN node_data
    ELSE LET keywords == Head(domains).keywords
             hit == \E i \in DOMAIN keywords :
                        \/ Contains(keywords[i], node_name)
                        \/ Contains(keywords[i], node_path)
         IN  TagDomains(IF hit THEN SetKey(node_data, "inferred_domain", Head(domains).domain)
                        ELSE node_data,
                        node_name, node_path, Tail(domains))

\* whether any domain of the table matches, i.e. whether the UPDATE runs
AnyDomain(node_name, node_path) ==
    \E d \in DOMAIN domain_keywords :
        \E i \in DOMAIN domain_keywords[d].keywords :
            \/ Contains(domain_keywords[d].keywords[i], node_name)
            \/ Contains(domain_keywords[d].keywords[i], node_path)

\* the UPDATE writing a payload that holds the inferred domain alone
_auto_detect_domains_Payload(s) ==
    LET all_nodes == s.db.nodes
        Tagged(node) ==
            IF AnyDomain(Lower(node.name), Lower(node.file_path))
            THEN [node EXCEPT !.data =
                    JsonDumps(TagDomains(EmptyDict, Lower(node.name),
                                         Lower(node.file_path), domain_keywords))]
            ELSE node
    IN  IF \E i \in DOMAIN all_nodes : all_nodes[i].file_path = None
        THEN Raised(s)
        ELSE Returned([s EXCEPT !.db.nodes = [i \in DOMAIN all_nodes |-> Tagged(all_nodes[i])]])

\* the tagging of the nodes that have an edge, and of no other node
_auto_detect_domains_Connected(s) ==
    LET all_nodes == s.db.nodes
        Connected(node) ==
            \E i \in DOMAIN s.db.edges :
                s.db.edges[i].source_id = node.id \/ s.db.edges[i].target_id = node.id
        Tagged(node) ==
            IF Connected(node) /\ AnyDomain(Lower(node.name), Lower(node.file_path))
            THEN [node EXCEPT !.data =
                    JsonDumps(TagDomains(JsonLoads(node.data), Lower(node.name),
                                         Lower(node.file_path), domain_keywords))]
            ELSE node
    IN  IF \E i \in DOMAIN all_nodes : all_nodes[i].file_path = None
        THEN Raised(s)
        ELSE Returned([s EXCEPT !.db.nodes = [i \in DOMAIN all_nodes |-> Tagged(all_nodes[i])]])

\* UPDATE nodes SET data = ? WHERE id = ?, for every node fetched at the start
_auto_detect_domains(s) ==
    LET all_nodes == s.db.nodes
        Tagged(node) ==
            IF AnyDomain(Lower(node.name), Lower(node.file_path))
            THEN [node EXCEPT !.data =
                    JsonDumps(TagDomains(JsonLoads(node.data), Lower(node.name),
                                         Lower(node.file_path), domain_keywords))]
            ELSE node
    IN  IF \E i \in DOMAIN all_nodes : all_nodes[i].file_path = None
        THEN Raised(s)
        ELSE Returned([s EXCEPT !.db.nodes = [i \in DOMAIN all_nodes |-> Tagged(all_nodes[i])]])

\* ------------ ComprehensiveKnowledgeGraphEnhancer (enhance_knowledge_graph.py)

\* the insert with no lookup at all
Comp_add_edge_safe_Always(s, source_id, target_id, relationship_type, properties) ==
    [db |-> _add_edge(s.db, source_id, target_id, relationship_type, properties),
     stats |-> CountAdded(s.stats, relationship_type),
     ret |-> TRUE]

\* ComprehensiveKnowledgeGraphEnhancer._add_edge_safe: the triple alone is
\* looked up, the endpoints are not
Comp_add_edge_safe(s, source_id, target_id, relationship_type, properties) ==
    IF CountEdges(s.db, source_id, target_id, relationship_type) = 0
    THEN [db |-> _add_edge(s.db, source_id, target_id, relationship_type, properties),
          stats |-> CountAdded(s.stats, relationship_type),
          ret |-> TRUE]
    ELSE [s EXCEPT !.ret = FALSE]

RECURSIVE CompCalls(_, _)
CompCalls(s, calls) ==
    IF calls = <<>> THEN s
    ELSE LET added == Comp_add_edge_safe(s, Head(calls).source_id, Head(calls).target_id,
                                         Head(calls).relationship_type,
                                         Head(calls).properties)
         IN  IF added.ret
             THEN CompCalls(added, Tail(calls))   \* the line printed for an edge added
             ELSE CompCalls(added, Tail(calls))

\* the six steps of enhance: each walks its table, in the order of the table
_add_demonstrates_edges(s) == Returned(CompCalls(s, mappings))
_add_pairs_with_edges(s) == Returned(CompCalls(s, pairs))
_add_prevents_edges(s) == Returned(CompCalls(s, template_preventions))
_add_explains_edges(s) == Returned(CompCalls(s, deep_dive_explanations))
_add_uses_edges(s) == Returned(CompCalls(s, integration_templates))
_add_relates_to_edges(s) == Returned(CompCalls(s, relations))

\* ------------------------------------------------------------------ inputs

ReentrancyDoc == <<"k","b","/","r","e","e","n","t","r","a","n","c","y",".","m","d">>
TemplateDoc == <<"k","b","/","s","e","c","u","r","e","-","e","r","c","2","0",".","s","o","l">>
DeepDiveDoc == <<"k","b","/","u","n","i","-","d","d",".","m","d">>
IntegrationDoc == <<"k","b","/","u","n","i","-","i","n","t",".","m","d">>
ContractDoc == <<"n","s","s","/","r","e","e","n","t","r","a","n","c","y","/",
                 "R","e","e","n","t","r","a","n","c","y",".","s","o","l">>

\* entities as extract_complete_metadata.py writes them; the vulnerable
\* contract comes with or without its file_path
Vulnerabilities ==
    << [id |-> "vuln_reentrancy",
        entity |-> [name |-> <<"R","e","e","n","t","r","a","n","c","y">>,
                    file_path |-> ReentrancyDoc]] >>
Templates ==
    << [id |-> "template_secure_erc20",
        entity |-> [name |-> <<"s","e","c","u","r","e","-","e","r","c","2","0",".","s","o","l">>,
                    file_path |-> TemplateDoc]] >>
DeepDives ==
    << [id |-> "deepdive_uniswap_v2",
        entity |-> [name |-> <<"U","n","i","s","w","a","p"," ","V","2"," ",
                               "D","e","e","p","-","D","i","v","e">>,
                    protocol |-> <<"U","n","i","s","w","a","p"," ","V","2">>,
                    file_path |-> DeepDiveDoc]] >>
Integrations ==
    << [id |-> "integration_uniswap_v2",
        entity |-> [name |-> <<"U","n","i","s","w","a","p"," ","V","2"," ",
                               "I","n","t","e","g","r","a","t","i","o","n"," ",
                               "G","u","i","d","e">>,
                    protocol |-> <<"U","n","i","s","w","a","p"," ","V","2">>,
                    file_path |-> IntegrationDoc]] >>
VulnerableContracts(with_path) ==
    << [id |-> "vulnerable_reentrancy",
        entity |-> IF with_path
                   THEN [name |-> <<"R","e","e","n","t","r","a","n","c","y",".","s","o","l">>,
                         file_path |-> ContractDoc]
                   ELSE [name |-> <<"R","e","e","n","t","r","a","n","c","y",".","s","o","l">>]] >>

Entities(with_path) ==
    [vulnerabilities |-> Vulnerabilities, templates |-> Templates,
     deepdives |-> DeepDives, integrations |-> Integrations,
     vulnerable_contracts |-> VulnerableContracts(with_path)]

\* relationship records of extract_relationships
RelPairs ==
    [source |-> "deepdive_uniswap_v2", target |-> "integration_uniswap_v2",
     type |-> "PAIRS_WITH", properties |-> [depth_ladder |-> "theory_to_practice"]]
RelDemonstrates ==
    [source |-> "vulnerable_reentrancy", target |-> "vuln_reentrancy",
     type |-> "DEMONSTRATES",
     properties |-> [exploit_name |-> "The DAO", loss_usd |-> 60000000, year |-> 2016]]
\* protocol_uniswap_v2 is a protocol version, a category the loader does not index
RelExplains ==
    [source |-> "deepdive_uniswap_v2", target |-> "protocol_uniswap_v2",
     type |-> "EXPLAINS", properties |-> EmptyDict]

\* _load_metadata when complete-metadata.json does not exist
NoMetadata == [entities |-> EmptyDict, relationships |-> <<>>]

Ingests ==
    { NoMetadata,
      [entities |-> Entities(TRUE), relationships |-> <<RelPairs, RelDemonstrates>>],
      [entities |-> Entities(TRUE),
       relationships |-> <<RelPairs, RelExplains, RelDemonstrates>>],
      [entities |-> Entities(FALSE), relationships |-> <<RelPairs>>] }

TemplateText ==
    <<"i","s"," ","R","e","e","n","t","r","a","n","c","y","G","u","a","r","d",","," ",
      "O","w","n","a","b","l","e",";"," ","n","o","n","R","e","e","n","t","r","a","n","t">>
DeepDiveText ==
    <<"R","e","e","n","t","r","a","n","c","y"," ","v","i","a"," ","a","n"," ",
      "e","x","t","e","r","n","a","l"," ","c","a","l","l",";"," ",
      "E","R","C","2","0"," ","s","w","a","p","s">>
IntegrationText ==
    <<"r","o","u","t","e","r"," ","f","o","r"," ","E","R","C","2","0"," ","p","a","i","r","s">>

\* the documents: all readable; the template document missing; the deep
\* dive document present and unreadable
FileSystems ==
    { [content |-> (TemplateDoc :> TemplateText) @@ (DeepDiveDoc :> DeepDiveText)
                   @@ (IntegrationDoc :> IntegrationText),
       unreadable |-> {}],
      [content |-> (DeepDiveDoc :> DeepDiveText) @@ (IntegrationDoc :> IntegrationText),
       unreadable |-> {}],
      [content |-> (TemplateDoc :> TemplateText) @@ (IntegrationDoc :> IntegrationText),
       unreadable |-> {DeepDiveDoc}] }

\* ----------------------------------------------------------------- scripts

NoReport == [edges_before |-> 0, edges_after |-> 0, edges_added |-> 0,
             edges_by_type |-> EmptyDict]

\* no inference run yet; done: the engines that committed a run since the
\* last rebuild
NoRun == [who |-> "none", outcome |-> "none", start |-> EmptyDb, again |-> FALSE,
          report |-> NoReport, done |-> {}]

NoTrace == [n |-> 0, last |-> <<>>]

Init ==
    /\ disk = EmptyDb
    /\ conn = EmptyDb
    /\ pc = "idle"
    /\ stats = InitStats
    /\ metadata \in Ingests
    /\ files \in FileSystems
    /\ rebuilds = 0
    /\ run = NoRun
    /\ trace = NoTrace

\* knowledge_graph.main: KnowledgeGraph(), index_from_metadata with its
\* commit, the statistics and example queries, close
KgMain ==
    /\ pc = "idle"
    /\ rebuilds < MaxRebuilds
    /\ disk' = index_from_metadata(disk, metadata)
    /\ conn' = disk'
    /\ rebuilds' = rebuilds + 1
    /\ run' = NoRun
    /\ UNCHANGED <<pc, stats, metadata, files, trace>>

\* the enhancer as a pass sees it
Self == [db |-> conn, stats |-> stats, ret |-> FALSE]

\* auto_enhance.main up to the first strategy: AutoEnhancer() and the
\* initial statistics of enhance
AutoStart ==
    /\ pc = "idle"
    /\ pc' = "auto_demonstrates"
    /\ stats' = [InitStats EXCEPT !.edges_before = get_statistics(conn).total_edges]
    /\ run' = [who |-> "auto", outcome |-> "running", start |-> disk,
               again |-> "auto" \in run.done, report |-> NoReport, done |-> run.done]
    /\ UNCHANGED <<disk, conn, metadata, files, rebuilds, trace>>

\* one strategy or step of enhance: it returns and the next one follows, or
\* it raises, main reports the error and close() drops the open transaction
Step(here, next, result) ==
    /\ pc = here
    /\ IF result.ok
       THEN /\ conn' = result.db
            /\ stats' = result.stats
            /\ pc' = next
            /\ UNCHANGED run
       ELSE /\ conn' = disk
            /\ stats' = InitStats
            /\ pc' = "idle"
            /\ run' = [run EXCEPT !.outcome = "aborted"]
    /\ UNCHANGED <<disk, metadata, files, rebuilds, trace>>

AutoDemonstrates == Step("auto_demonstrates", "auto_pairs", _auto_detect_demonstrates(Self))
AutoPairs == Step("auto_pairs", "auto_prevents", _auto_detect_pairs(Self))
AutoPrevents == Step("auto_prevents", "auto_explains", _auto_detect_prevents(Self, files))
AutoExplains == Step("auto_explains", "auto_uses", _auto_detect_explains(Self, files))
AutoUses == Step("auto_uses", "auto_relates", _auto_detect_uses(Self, files))
AutoRelates == Step("auto_relates", "auto_domains", _auto_detect_relates(Self))
AutoDomains == Step("auto_domains", "auto_commit", _auto_detect_domains(Self))

\* the report enhance prints from self.stats and the final statistics
Report(db) == [edges_before |-> stats.edges_before,
               edges_after |-> get_statistics(db).total_edges,
               edges_added |-> stats.edges_added,
               edges_by_type |-> stats.edges_by_type]

\* _commit, the final statistics and the report, then close
AutoCommit ==
    /\ pc = "auto_commit"
    /\ disk' = conn
    /\ pc' = "idle"
    /\ stats' = InitStats
    /\ run' = [run EXCEPT !.outcome = "committed", !.report = Report(conn),
                          !.done = @ \cup {"auto"}]
    /\ UNCHANGED <<conn, metadata, files, rebuilds, trace>>

\* enhance_knowledge_graph.main up to the first step
CompStart ==
    /\ pc = "idle"
    /\ pc' = "comp_demonstrates"
    /\ stats' = [InitStats EXCEPT !.edges_before = get_statistics(conn).total_edges]
    /\ run' = [who |-> "comp", outcome |-> "running", start |-> disk,
               again |-> "comp" \in run.done, report |-> NoReport, done |-> run.done]
    /\ UNCHANGED <<disk, conn, metadata, files, rebuilds, trace>>

CompDemonstrates == Step("comp_demonstrates", "comp_pairs", _add_demonstrates_edges(Self))
CompPairs == Step("comp_pairs", "comp_prevents", _add_pairs_with_edges(Self))
CompPrevents == Step("comp_prevents", "comp_explains", _add_prevents_edges(Self))
CompExplains == Step("comp_explains", "comp_uses", _add_explains_edges(Self))
CompUses == Step("comp_uses", "comp_relates", _add_uses_edges(Self))
CompRelates == Step("comp_relates", "comp_report", _add_relates_to_edges(Self))

\* the final statistics and the report, the last thing enhance does
CompReport ==
    /\ pc = "comp_report"
    /\ pc' = "comp_commit"
    /\ run' = [run EXCEPT !.report = Report(conn)]
    /\ UNCHANGED <<disk, conn, stats, metadata, files, rebuilds, trace>>

\* enhancer.commit() in main, then close
CompCommit ==
    /\ pc = "comp_commit"
    /\ disk' = conn
    /\ pc' = "idle"
    /\ stats' = InitStats
    /\ run' = [run EXCEPT !.outcome = "committed", !.done = @ \cup {"comp"}]
    /\ UNCHANGED <<conn, metadata, files, rebuilds, trace>>

\* the process dies during an inference run: SQLite rolls the open
\* transaction back when the file is next opened
Crash ==
    /\ pc # "idle"
    /\ conn' = disk
    /\ pc' = "idle"
    /\ stats' = InitStats
    /\ run' = [run EXCEPT !.outcome = "crashed"]
    /\ UNCHANGED <<disk, metadata, files, rebuilds, trace>>

Next ==
    \/ KgMain
    \/ AutoStart \/ AutoDemonstrates \/ AutoPairs \/ AutoPrevents \/ AutoExplains
    \/ AutoUses \/ AutoRelates \/ AutoDomains \/ AutoCommit
    \/ CompStart \/ CompDemonstrates \/ CompPairs \/ CompPrevents \/ CompExplains
    \/ CompUses \/ CompRelates \/ CompReport \/ CompCommit
    \/ Crash

Spec == Init /\ [][Next]_vars

\* ------------------------------------------- the store primitives, directly

\* arguments for _add_node: an id, and the other columns
ApiNodeIds == {"vuln_reentrancy", "vulnerable_reentrancy"}
ApiNodeColumns ==
    { [node_type |-> "Vulnerability", name |-> Vulnerabilities[1].entity.name,
       kb_source |-> "action", file_path |-> ReentrancyDoc,
       data |-> Vulnerabilities[1].entity],
      [node_type |-> "VulnerableContract", name |-> VulnerableContracts(TRUE)[1].entity.name,
       kb_source |-> "research", file_path |-> None,
       data |-> VulnerableContracts(FALSE)[1].entity],
      [node_type |-> "Bogus", name |-> VulnerableContracts(TRUE)[1].entity.name,
       kb_source |-> "research", file_path |-> ContractDoc,
       data |-> VulnerableContracts(TRUE)[1].entity] }

\* arguments for the two _add_edge_safe
ApiEdgeArgs ==
    { Call("vulnerable_reentrancy", "vuln_reentrancy", r, [auto_detected |-> TRUE]) :
        r \in {"DEMONSTRATES", "REFERENCES"} }

\* the call just made, after the one before it
Traced(op, args, ret) ==
    LET c == [op |-> op, args |-> args, ret |-> ret, pre |-> conn, preStats |-> stats]
    IN  [n |-> trace.n + 1,
         last |-> IF trace.last = <<>> THEN <<c>> ELSE <<trace.last[Len(trace.last)], c>>]

\* kg._add_node(...) on the open connection
ApiAddNode ==
    /\ pc = "idle"
    /\ trace.n < MaxCalls
    /\ \E node_id \in ApiNodeIds, c \in ApiNodeColumns :
        /\ conn' = _add_node(conn, node_id, c.node_type, c.name, c.kb_source,
                             c.file_path, c.data)
        /\ trace' = Traced("_add_node", [node_id |-> node_id] @@ c, TRUE)
    /\ UNCHANGED <<disk, pc, stats, metadata, files, rebuilds, run>>

\* AutoEnhancer()._add_edge_safe(...)
ApiAutoAddEdgeSafe ==
    /\ pc = "idle"
    /\ trace.n < MaxCalls
    /\ \E a \in ApiEdgeArgs :
        LET r == Auto_add_edge_safe(Self, a.source_id, a.target_id,
                                    a.relationship_type, a.properties)
        IN  /\ conn' = r.db
            /\ stats' = r.stats
            /\ trace' = Traced("Auto_add_edge_safe", a, r.ret)
    /\ UNCHANGED <<disk, pc, metadata, files, rebuilds, run>>

\* ComprehensiveKnowledgeGraphEnhancer()._add_edge_safe(...)
ApiCompAddEdgeSafe ==
    /\ pc = "idle"
    /\ trace.n < MaxCalls
    /\ \E a \in ApiEdgeArgs :
        LET r == Comp_add_edge_safe(Self, a.source_id, a.target_id,
                                    a.relationship_type, a.properties)
        IN  /\ conn' = r.db
            /\ stats' = r.stats
            /\ trace' = Traced("Comp_add_edge_safe", a, r.ret)
    /\ UNCHANGED <<disk, pc, metadata, files, rebuilds, run>>

\* the store as the loader left it, then the primitives called on it
ApiRebuild == trace.n = 0 /\ KgMain

NextApi ==
    \/ ApiRebuild
    \/ ApiAddNode
    \/ ApiAutoAddEdgeSafe
    \/ ApiCompAddEdgeSafe

\* the documents play no part in the primitives
InitApi == Init /\ files.unreadable = {} /\ TemplateDoc \in DOMAIN files.content

SpecApi == InitApi /\ [][NextApi]_vars


\* ------------------------------------------------------ the queries, directly

\* the store the queries are asked of: two vulnerabilities, one of them
\* with a loss figure, a template and a vulnerable contract
QueryReentrancy ==
    [id |-> "vuln_reentrancy",
     entity |->
        [name |-> <<"R","e","e","n","t","r","a","n","c","y">>,
         file_path |-> <<"k","b","/","r","e","e","n","t","r","a","n","c","y",".","m","d">>,
         severity |-> <<"H","I","G","H">>,
         historical_losses_usd |-> 60000000,
         description |-> <<"a","n"," ","e","x","t","e","r","n","a","l"," ","c","a","l","l"," ","m",
                           "a","d","e"," ","b","e","f","o","r","e"," ","t","h","e"," ","s","t","a","t","e",
                           " ","i","s"," ","u","p","d","a","t","e","d">>]]
QueryOverflow ==
    [id |-> "vuln_overflow",
     entity |->
        [name |-> <<"I","n","t","e","g","e","r"," ","O","v","e","r","f","l","o","w">>,
         file_path |-> <<"k","b","/","o","v","e","r","f","l","o","w",".","m","d">>,
         severity |-> <<"M","E","D","I","U","M">>]]
QueryTemplate ==
    [id |-> "template_secure_erc20",
     entity |->
        [name |-> <<"s","e","c","u","r","e","-","e","r","c","2","0",".","s","o","l">>,
         file_path |-> <<"k","b","/","s","e","c","u","r","e","-","e","r","c","2","0",".","s",
             "o","l">>]]
QueryContract ==
    [id |-> "vulnerable_vault",
     entity |->
        [name |-> <<"V","a","u","l","t",".","s","o","l">>,
         file_path |-> <<"n","s","s","/","r","e","e","n","t","r","a","n","c","y","/","V","a",
             "u","l","t",".","s","o","l">>,
         vulnerability_type |-> <<"R","e","e","n","t","r","a","n","c","y">>]]

QueryToken ==
    [id |-> "vulnerable_token",
     entity |->
        [name |-> <<"T","o","k","e","n",".","s","o","l">>,
         file_path |-> <<"n","s","s","/","i","n","t","e","g","e","r","_","o","v","e","r","f",
             "l","o","w","/","T","o","k","e","n",".","s","o","l">>,
         vulnerability_type |-> <<"I","n","t","e","g","e","r"," ","O","v","e","r","f","l","o","w">>]]

RelPrevents ==
    [source |-> "template_secure_erc20", target |-> "vuln_reentrancy",
     type |-> "PREVENTS", properties |-> EmptyDict]
RelRelates ==
    [source |-> "vuln_reentrancy", target |-> "vuln_overflow",
     type |-> "RELATES_TO", properties |-> EmptyDict]
RelVault ==
    [source |-> "vulnerable_vault", target |-> "vuln_reentrancy",
     type |-> "DEMONSTRATES", properties |-> EmptyDict]
\* a relationship to a protocol version, which the loader does not index
RelReferences ==
    [source |-> "vuln_overflow", target |-> "protocol_uniswap_v2",
     type |-> "REFERENCES", properties |-> EmptyDict]
\* a relationship record with a type of its own
RelMitigates ==
    [source |-> "template_secure_erc20", target |-> "vuln_overflow",
     type |-> "MITIGATES", properties |-> EmptyDict]

\* two vulnerabilities, a template and one edge; the same with two
\* contracts and a chain of edges; the same with the last two relationships
QueryIngests ==
    { [entities |-> [vulnerabilities |-> <<QueryReentrancy, QueryOverflow>>,
                     templates |-> <<QueryTemplate>>],
       relationships |-> <<RelPrevents>>],
      [entities |-> [vulnerabilities |-> <<QueryReentrancy, QueryOverflow>>,
                     templates |-> <<QueryTemplate>>,
                     vulnerable_contracts |-> <<QueryContract, QueryToken>>],
       relationships |-> <<RelPrevents, RelRelates, RelVault>>],
      [entities |-> [vulnerabilities |-> <<QueryReentrancy, QueryOverflow>>,
                     templates |-> <<QueryTemplate>>,
                     vulnerable_contracts |-> <<QueryContract, QueryToken>>],
       relationships |-> <<RelPrevents, RelRelates, RelVault, RelReferences,
                           RelMitigates>>] }

\* names for _name_similarity: none, two names that share their words up to
\* case, and one made of punctuation only
QueryNames ==
    { <<>>,
      <<"U","n","i","s","w","a","p"," ","V","2">>,
      <<"u","n","i","s","w","a","p"," ","v","2"," ","G","u","i","d","e">>,
      <<"-","-">> }

\* the query just asked
Asked(op, args, ret) ==
    [n |-> trace.n + 1,
     last |-> <<[op |-> op, args |-> args, ret |-> ret, pre |-> conn, preStats |-> stats]>>]

\* AutoEnhancer()._name_similarity(name1, name2)
QueryNameSimilarity ==
    /\ pc = "idle"
    /\ trace.n < MaxCalls
    /\ \E name1, name2 \in QueryNames :
        trace' = Asked("_name_similarity", [name1 |-> name1, name2 |-> name2],
                       _name_similarity(name1, name2))
    /\ UNCHANGED <<disk, conn, pc, stats, metadata, files, rebuilds, run>>

\* kg.get_statistics()
QueryStatistics ==
    /\ pc = "idle"
    /\ trace.n < MaxCalls
    /\ trace' = Asked("get_statistics", EmptyDict, get_statistics(conn))
    /\ UNCHANGED <<disk, conn, pc, stats, metadata, files, rebuilds, run>>

\* ids to ask about: the nodes at the ends of edges and one that is no node
QueryIds == {"vuln_reentrancy", "vuln_overflow", "template_secure_erc20",
             "vulnerable_vault", "protocol_uniswap_v2"}

\* kg.get_related(node_id, relationship_type)
QueryGetRelated ==
    /\ pc = "idle"
    /\ trace.n < MaxCalls
    /\ \E node_id \in QueryIds,
          relationship_type \in {Absent, Some("PREVENTS"), Some("RELATES_TO")} :
        trace' = Asked("get_related",
                       [node_id |-> node_id, relationship_type |-> relationship_type],
                       get_related(conn, node_id, relationship_type))
    /\ UNCHANGED <<disk, conn, pc, stats, metadata, files, rebuilds, run>>

\* kg.get_path(source_id, target_id, max_depth)
QueryGetPath ==
    /\ pc = "idle"
    /\ trace.n < MaxCalls
    /\ \E source_id \in QueryIds, target_id \in QueryIds, max_depth \in {1, 3} :
        trace' = Asked("get_path",
                       [source_id |-> source_id, target_id |-> target_id,
                        max_depth |-> max_depth],
                       get_path(conn, source_id, target_id, max_depth))
    /\ UNCHANGED <<disk, conn, pc, stats, metadata, files, rebuilds, run>>

\* kg.find_vulnerabilities(severity, min_loss)
QueryFindVulnerabilities ==
    /\ pc = "idle"
    /\ trace.n < MaxCalls
    /\ \E severity \in {Absent, Some(<<"H","I","G","H">>), Some(<<"L","O","W">>), Some(<<>>)},
          min_loss \in {Absent, Some(0), Some(1000000), Some(100000000)} :
        trace' = Asked("find_vulnerabilities",
                       [severity |-> severity, min_loss |-> min_loss],
                       find_vulnerabilities(conn, severity, min_loss))
    /\ UNCHANGED <<disk, conn, pc, stats, metadata, files, rebuilds, run>>

\* queries for search: words of the names, of the paths and of the
\* identifiers, a word no node has, and two names as they are written
QueryTerms ==
    { <<"r","e","e","n","t","r","a","n","c","y">>,
      <<"O","v","e","r","f","l","o","w">>,
      <<"i","n","t","e","g","e","r">>,
      <<"s","o","l">>,
      <<"v","u","l","n","_","o","v","e","r","f","l","o","w">>,
      <<"o","r","a","c","l","e">>,
      <<"V","a","u","l","t",".","s","o","l">>,
      <<"s","e","c","u","r","e","-","e","r","c","2","0",".","s","o","l">> }

\* kg.search(query, limit)
QuerySearch ==
    /\ pc = "idle"
    /\ trace.n < MaxCalls
    /\ \E query \in QueryTerms, limit \in {1, 10} :
        trace' = Asked("search", [query |-> query, limit |-> limit],
                       search(conn, query, limit))
    /\ UNCHANGED <<disk, conn, pc, stats, metadata, files, rebuilds, run>>

\* the store as the loader left it, then the queries asked of it
QueryRebuild == trace.n = 0 /\ KgMain

NextQuery ==
    \/ QueryRebuild
    \/ QueryNameSimilarity
    \/ QueryStatistics
    \/ QueryGetRelated
    \/ QueryGetPath
    \/ QueryFindVulnerabilities

\* the documents play no part in the queries
InitQuery ==
    /\ disk = EmptyDb
    /\ conn = EmptyDb
    /\ pc = "idle"
    /\ stats = InitStats
    /\ metadata \in QueryIngests
    /\ files = [content |-> EmptyDict, unreadable |-> {}]
    /\ rebuilds = 0
    /\ run = NoRun
    /\ trace = NoTrace

SpecQuery == InitQuery /\ [][NextQuery]_vars

\* the store as the loader left it, then the searches in it
NextSearch ==
    \/ QueryRebuild
    \/ QuerySearch

SpecSearch == InitQuery /\ [][NextSearch]_vars


\* ------------------------------------------ the passes on other documents

\* deep dive documents: one keyword of the vulnerability twice, and one
\* keyword once
DeepDiveTextRepeated ==
    <<"r","e","e","n","t","r","a","n","c","y"," ","h","e","r","e",","," ",
      "R","e","e","n","t","r","a","n","c","y"," ","t","h","e","r","e">>
DeepDiveTextOnce ==
    <<"r","e","e","n","t","r","a","n","c","y"," ","o","n","c","e">>

\* a template document with the marker nonReentrant and no other marker
TemplateTextModifier ==
    <<"f","u","n","c","t","i","o","n"," ","w","i","t","h","d","r","a","w","(",")"," ",
      "e","x","t","e","r","n","a","l"," ","n","o","n","R","e","e","n","t","r","a","n","t">>

PassFileSystems ==
    { [content |-> (TemplateDoc :> template) @@ (DeepDiveDoc :> deep_dive)
                   @@ (IntegrationDoc :> IntegrationText),
       unreadable |-> {}] :
        template \in {TemplateText, TemplateTextModifier},
        deep_dive \in {DeepDiveText, DeepDiveTextRepeated, DeepDiveTextOnce} }

PassIngests ==
    { [entities |-> Entities(TRUE), relationships |-> <<RelPairs, RelDemonstrates>>] }

InitPass ==
    /\ disk = EmptyDb
    /\ conn = EmptyDb
    /\ pc = "idle"
    /\ stats = InitStats
    /\ metadata \in PassIngests
    /\ files \in PassFileSystems
    /\ rebuilds = 0
    /\ run = NoRun
    /\ trace = NoTrace

\* the loader and the automatic enhancer
NextPass ==
    \/ KgMain
    \/ AutoStart \/ AutoDemonstrates \/ AutoPairs \/ AutoPrevents \/ AutoExplains
    \/ AutoUses \/ AutoRelates \/ AutoDomains \/ AutoCommit

SpecPass == InitPass /\ [][NextPass]_vars


\* ---------------------------------- the pairs pass on other deep dives and guides

\* deep dives and integration guides as extract_complete_metadata.py writes
\* them, some without the protocol attribute or with an empty one
DeepdiveCurve ==
    [id |-> "deepdive_curve",
     entity |->
        [name |-> <<"C","u","r","v","e"," ","S","t","a","b","l","e","S","w","a","p"," ",
                    "D","e","e","p","-","D","i","v","e">>,
         protocol |-> <<"C","u","r","v","e"," ","S","t","a","b","l","e","S","w","a","p">>,
         file_path |-> <<"k","b","/","c","u","r","v","e","-","d","d",".","m","d">>]]
DeepdiveChainlink ==
    [id |-> "deepdive_chainlink",
     entity |->
        [name |-> <<"C","h","a","i","n","l","i","n","k"," ","O","r","a","c","l","e"," ",
                    "D","e","e","p","-","D","i","v","e">>,
         protocol |-> <<"C","h","a","i","n","l","i","n","k">>,
         file_path |-> <<"k","b","/","c","h","a","i","n","l","i","n","k","-","d","d",".",
                         "m","d">>]]
IntegrationCurve ==
    [id |-> "integration_curve",
     entity |->
        [name |-> <<"C","u","r","v","e"," ","F","i","n","a","n","c","e"," ","I","n","t",
                    "e","g","r","a","t","i","o","n"," ","G","u","i","d","e">>,
         protocol |-> <<"C","u","r","v","e"," ","F","i","n","a","n","c","e">>,
         file_path |-> <<"k","b","/","c","u","r","v","e","-","i","n","t",".","m","d">>]]
IntegrationChainlinkVrf ==
    [id |-> "integration_chainlink_vrf",
     entity |->
        [name |-> <<"C","h","a","i","n","l","i","n","k"," ","V","R","F"," ","I","n","t",
                    "e","g","r","a","t","i","o","n"," ","G","u","i","d","e">>,
         protocol |-> <<"C","h","a","i","n","l","i","n","k"," ","V","R","F">>,
         file_path |-> <<"k","b","/","v","r","f","-","i","n","t",".","m","d">>]]
DeepdiveYearn ==
    [id |-> "deepdive_yearn",
     entity |->
        [name |-> <<"Y","e","a","r","n"," ","V","a","u","l","t">>,
         file_path |-> <<"k","b","/","y","e","a","r","n","-","d","d",".","m","d">>]]
IntegrationYearn ==
    [id |-> "integration_yearn",
     entity |->
        [name |-> <<"Y","e","a","r","n"," ","V","a","u","l","t"," ","G","u","i","d","e">>,
         file_path |-> <<"k","b","/","y","e","a","r","n","-","i","n","t",".","m","d">>]]
IntegrationYearnNotes ==
    [id |-> "integration_yearn_notes",
     entity |->
        [name |-> <<"Y","e","a","r","n"," ","V","a","u","l","t"," ","I","n","t","e","g",
                    "r","a","t","i","o","n"," ","G","u","i","d","e">>,
         file_path |-> <<"k","b","/","y","e","a","r","n","-","n","o","t","e","s",".","m",
                         "d">>]]
DeepdiveSeaport ==
    [id |-> "deepdive_seaport",
     entity |->
        [name |-> <<"S","e","a","p","o","r","t"," ","D","e","e","p","-","D","i","v","e">>,
         protocol |-> <<"S","e","a","p","o","r","t">>,
         file_path |-> <<"k","b","/","s","e","a","p","o","r","t","-","d","d",".","m","d">>]]
DeepdiveLiquity ==
    [id |-> "deepdive_liquity",
     entity |->
        [name |-> <<"L","i","q","u","i","t","y"," ","D","e","e","p","-","D","i","v","e">>,
         file_path |-> <<"k","b","/","l","i","q","u","i","t","y","-","d","d",".","m","d">>]]
IntegrationLiquity ==
    [id |-> "integration_liquity",
     entity |->
        [name |-> <<"L","i","q","u","i","t","y"," ","I","n","t","e","g","r","a","t","i",
                    "o","n"," ","G","u","i","d","e">>,
         protocol |-> <<"L","i","q","u","i","t","y">>,
         file_path |-> <<"k","b","/","l","i","q","u","i","t","y","-","i","n","t",".","m",
                         "d">>]]
IntegrationBalancer ==
    [id |-> "integration_balancer",
     entity |->
        [name |-> <<"B","a","l","a","n","c","e","r"," ","I","n","t","e","g","r","a","t",
                    "i","o","n"," ","G","u","i","d","e">>,
         protocol |-> <<>>,
         file_path |-> <<"k","b","/","b","a","l","a","n","c","e","r","-","i","n","t",".",
                         "m","d">>]]
IntegrationSynthetix ==
    [id |-> "integration_synthetix",
     entity |->
        [name |-> <<"S","y","n","t","h","e","t","i","x"," ","I","n","t","e","g","r","a",
                    "t","i","o","n"," ","G","u","i","d","e">>,
         file_path |-> <<"k","b","/","s","y","n","t","h","e","t","i","x","-","i","n","t",
                         ".","m","d">>]]
\* the ingests: deep dives and integration guides, no relationship records
PairIngests ==
    {
      \* both protocols declared: one a substring of the other, and two that differ
      [entities |-> [deepdives |-> <<DeepdiveCurve, DeepdiveChainlink>>,
                     integrations |-> <<IntegrationCurve, IntegrationChainlinkVrf>>],
       relationships |-> <<>>],
      \* no protocol declared: names of similarity 2/3 and of similarity 2/4
      [entities |-> [deepdives |-> <<DeepdiveYearn>>,
                     integrations |-> <<IntegrationYearn, IntegrationYearnNotes>>],
       relationships |-> <<>>],
      \* a protocol declared on one side only, the other side absent or empty
      [entities |-> [deepdives |-> <<DeepdiveSeaport, DeepdiveLiquity>>,
                     integrations |-> <<IntegrationLiquity, IntegrationBalancer,
                                        IntegrationSynthetix>>],
       relationships |-> <<>>] }

\* no document of these entities exists
InitPairs ==
    /\ disk = EmptyDb
    /\ conn = EmptyDb
    /\ pc = "idle"
    /\ stats = InitStats
    /\ metadata \in PairIngests
    /\ files = [content |-> EmptyDict, unreadable |-> {}]
    /\ rebuilds = 0
    /\ run = NoRun
    /\ trace = NoTrace

SpecPairs == InitPairs /\ [][NextPass]_vars

\* ----------------------------- the passes on an ingest without relationships

\* the entities with no relationship record, so that every edge of the store
\* is one a pass has added
InitUnrelated ==
    /\ disk = EmptyDb
    /\ conn = EmptyDb
    /\ pc = "idle"
    /\ stats = InitStats
    /\ metadata = [entities |-> Entities(TRUE), relationships |-> <<>>]
    /\ files \in PassFileSystems
    /\ rebuilds = 0
    /\ run = NoRun
    /\ trace = NoTrace

SpecUnrelated == InitUnrelated /\ [][NextPass]_vars

\* ------------------------------------------------------ the graph version

\* str.split(sep) for a separator of one character
RECURSIVE split(_, _)
split(text, sep) ==
    IF \A i \in DOMAIN text : text[i] # sep THEN <<text>>
    ELSE LET i == CHOOSE k \in DOMAIN text :
                    text[k] = sep /\ \A j \in 1..(k - 1) : text[j] # sep
         IN  <<SubSeq(text, 1, i - 1)>> \o split(SubSeq(text, i + 1, Len(text)), sep)

\* int(text) for a text of decimal digits, and the text an f-string makes of
\* a number that is not negative
RECURSIVE int(_)
int(text) ==
    IF Len(text) = 1
    THEN (CHOOSE d \in DOMAIN DecimalDigits : DecimalDigits[d] = text[1]) - 1
    ELSE int(SubSeq(text, 1, Len(text) - 1)) * 10 + int(<<text[Len(text)]>>)
RECURSIVE str(_)
str(n) ==
    IF n < 10 THEN <<DecimalDigits[n + 1]>>
    ELSE str(n \div 10) \o <<DecimalDigits[(n % 10) + 1]>>

\* INSERT OR REPLACE INTO graph_metadata, and its commit in the action that
\* calls it; the column updated_at is not kept
set_metadata_value(db, key, value) ==
    [db EXCEPT !.graph_metadata = SetKey(@, key, value)]

\* SELECT value FROM graph_metadata WHERE key = ?
get_metadata_value(db, key, default) ==
    IF key \in DOMAIN db.graph_metadata THEN db.graph_metadata[key] ELSE default

get_version(db) == get_metadata_value(db, "version", <<"1",".","0",".","0">>)

\* a minor bump that keeps the patch number
increment_version_KeepPatch(db, bump_type) ==
    LET current == get_version(db)
        parts == split(current, ".")
        major == int(parts[1])
        minor == int(parts[2])
        patch == int(parts[3])
        bumped == IF bump_type = "major" THEN <<major + 1, 0, 0>>
                  ELSE IF bump_type = "minor" THEN <<major, minor + 1, patch>>
                  ELSE <<major, minor, patch + 1>>
        new_version == str(bumped[1]) \o <<".">> \o str(bumped[2]) \o <<".">> \o str(bumped[3])
    IN  [db |-> set_metadata_value(db, "version", new_version), ret |-> new_version]

\* increment_version: the stored text is split and parsed, one number is
\* moved, and the text of the three numbers is stored and returned
increment_version(db, bump_type) ==
    LET current == get_version(db)
        parts == split(current, ".")
        major == int(parts[1])
        minor == int(parts[2])
        patch == int(parts[3])
        bumped == IF bump_type = "major" THEN <<major + 1, 0, 0>>
                  ELSE IF bump_type = "minor" THEN <<major, minor + 1, 0>>
                  ELSE <<major, minor, patch + 1>>
        new_version == str(bumped[1]) \o <<".">> \o str(bumped[2]) \o <<".">> \o str(bumped[3])
    IN  [db |-> set_metadata_value(db, "version", new_version), ret |-> new_version]

\* the bump types asked for: the three of the code and one it does not name
BumpTypes == {"major", "minor", "patch", "build"}

\* kg.increment_version(bump_type) on the open store
VersionBump ==
    /\ pc = "idle"
    /\ trace.n < MaxBumps
    /\ \E bump_type \in BumpTypes :
        LET bumped == increment_version(conn, bump_type)
        IN  /\ conn' = bumped.db
            /\ disk' = bumped.db
            /\ trace' = Asked("increment_version", [bump_type |-> bump_type], bumped.ret)
    /\ UNCHANGED <<pc, stats, metadata, files, rebuilds, run>>

\* a build of the store between two bumps
VersionRebuild ==
    /\ pc = "idle"
    /\ rebuilds < MaxRebuilds
    /\ disk' = index_from_metadata(disk, metadata)
    /\ conn' = disk'
    /\ rebuilds' = rebuilds + 1
    /\ UNCHANGED <<pc, stats, metadata, files, run, trace>>

InitVersion ==
    /\ InitPairs
    /\ metadata.entities = (CHOOSE md \in PairIngests : TRUE).entities

NextVersion ==
    \/ VersionBump
    \/ VersionRebuild

SpecVersion == InitVersion /\ [][NextVersion]_vars

\* ------------------------------------------ the seven strategies, in any order

\* the enhancer after a strategy that returned
After(result) == [db |-> result.db, stats |-> result.stats, ret |-> FALSE]

\* the strategies of enhance in the order the code calls them, the first one
\* that raises ending the sequence
enhance_strategies(s, fs) ==
    LET r1 == _auto_detect_demonstrates(s)
        r2 == IF r1.ok THEN _auto_detect_pairs(After(r1)) ELSE r1
        r3 == IF r2.ok THEN _auto_detect_prevents(After(r2), fs) ELSE r2
        r4 == IF r3.ok THEN _auto_detect_explains(After(r3), fs) ELSE r3
        r5 == IF r4.ok THEN _auto_detect_uses(After(r4), fs) ELSE r4
        r6 == IF r5.ok THEN _auto_detect_relates(After(r5)) ELSE r5
    IN  IF r6.ok THEN _auto_detect_domains(After(r6)) ELSE r6

Strategies ==
    {"auto_demonstrates", "auto_pairs", "auto_prevents", "auto_explains", "auto_uses",
     "auto_relates", "auto_domains"}

\* the ingests and documents the strategies are run on
OrderInputs ==
    {[metadata |-> md, files |-> fs] : md \in PassIngests, fs \in PassFileSystems}
        \cup {[metadata |-> md, files |-> [content |-> EmptyDict, unreadable |-> {}]] :
                md \in PairIngests}
        \cup {[metadata |-> [entities |-> Entities(FALSE), relationships |-> <<RelPairs>>],
               files |-> fs] : fs \in PassFileSystems}

\* the store as the loader has left it, the enhancer constructed and the
\* initial statistics read
InitOrder ==
    /\ \E input \in OrderInputs :
        /\ metadata = input.metadata
        /\ files = input.files
    /\ disk = index_from_metadata(EmptyDb, metadata)
    /\ conn = disk
    /\ pc = "any_order"
    /\ stats = [InitStats EXCEPT !.edges_before = get_statistics(disk).total_edges]
    /\ rebuilds = 1
    /\ run = [who |-> "order", outcome |-> "running", start |-> disk, again |-> FALSE,
              report |-> NoReport, done |-> {}]
    /\ trace = NoTrace

\* a strategy that has not run yet runs next: it returns, or it raises and
\* the open transaction is dropped as in Step
InOrder(strategy, result) ==
    /\ pc = "any_order"
    /\ strategy \notin run.done
    /\ IF result.ok
       THEN /\ conn' = result.db
            /\ stats' = result.stats
            /\ run' = [run EXCEPT !.done = @ \cup {strategy}]
            /\ UNCHANGED pc
       ELSE /\ conn' = disk
            /\ stats' = InitStats
            /\ pc' = "idle"
            /\ run' = [run EXCEPT !.outcome = "aborted"]
    /\ UNCHANGED <<disk, metadata, files, rebuilds, trace>>

OrderDemonstrates == InOrder("auto_demonstrates", _auto_detect_demonstrates(Self))
OrderPairs == InOrder("auto_pairs", _auto_detect_pairs(Self))
OrderPrevents == InOrder("auto_prevents", _auto_detect_prevents(Self, files))
OrderExplains == InOrder("auto_explains", _auto_detect_explains(Self, files))
OrderUses == InOrder("auto_uses", _auto_detect_uses(Self, files))
OrderRelates == InOrder("auto_relates", _auto_detect_relates(Self))
OrderDomains == InOrder("auto_domains", _auto_detect_domains(Self))

NextOrder ==
    \/ OrderDemonstrates \/ OrderPairs \/ OrderPrevents \/ OrderExplains
    \/ OrderUses \/ OrderRelates \/ OrderDomains

SpecOrder == InitOrder /\ [][NextOrder]_vars

\* --------------------------------- the builder, the ingest file coming and going

\* what main has printed and returned when it ends; nothing in
\* KnowledgeGraph() or index_from_metadata raises on the ingests here, the
\* missing file included, so main runs to its last line
KgMainOutcome == [exit_status |-> 0, printed |-> "Knowledge graph built successfully!"]

\* knowledge_graph.main, its outcome kept
BuildMain ==
    /\ pc = "idle"
    /\ rebuilds < MaxRebuilds
    /\ disk' = index_from_metadata(disk, metadata)
    /\ conn' = disk'
    /\ rebuilds' = rebuilds + 1
    /\ run' = NoRun
    /\ trace' = Asked("main", [metadata_exists |-> metadata # NoMetadata], KgMainOutcome)
    /\ UNCHANGED <<pc, stats, metadata, files>>

\* complete-metadata.json is deleted
IngestRemoved ==
    /\ pc = "idle"
    /\ metadata # NoMetadata
    /\ metadata' = NoMetadata
    /\ UNCHANGED <<disk, conn, pc, stats, files, rebuilds, run, trace>>

\* extract_complete_metadata writes complete-metadata.json
IngestWritten ==
    /\ pc = "idle"
    /\ \E md \in Ingests \ {NoMetadata} :
        /\ md # metadata
        /\ metadata' = md
    /\ UNCHANGED <<disk, conn, pc, stats, files, rebuilds, run, trace>>

NextBuild ==
    \/ BuildMain
    \/ IngestRemoved
    \/ IngestWritten

SpecBuild == Init /\ [][NextBuild]_vars

\* ------------------------------------------------------------ observations

\* what the properties below read off a store, written apart from the
\* queries of the code
NodeIds(db) == {db.nodes[i].id : i \in DOMAIN db.nodes}
Triple(e) == <<e.source_id, e.target_id, e.relationship_type>>
TripleCount(db, t) == Cardinality({i \in DOMAIN db.edges : Triple(db.edges[i]) = t})
NoDuplicateTriple(db) ==
    \A i, j \in DOMAIN db.edges :
        Triple(db.edges[i]) = Triple(db.edges[j]) => i = j
NoDanglingEdge(db) ==
    \A i \in DOMAIN db.edges :
        db.edges[i].source_id \in NodeIds(db) /\ db.edges[i].target_id \in NodeIds(db)
IsPrefix(s, t) == Len(s) <= Len(t) /\ SubSeq(t, 1, Len(s)) = s

\* the closed set of node types of the data model
NodeTypes == {"Vulnerability", "Template", "DeepDive", "Integration",
              "VulnerableContract", "ProtocolVersion", "SourceRepository", "Pattern"}

\* the last call made on the primitives, and the one before it
HasLast == trace.last # <<>>
Last == trace.last[Len(trace.last)]
First == trace.last[1]
IsSafeCall(c) == c.op \in {"Auto_add_edge_safe", "Comp_add_edge_safe"}
EndpointsStored(c) ==
    c.args.source_id \in NodeIds(c.pre) /\ c.args.target_id \in NodeIds(c.pre)

\* _add_edge_safe was called twice in a row, by the same enhancer, with
\* identical arguments
CalledTwice ==
    /\ Len(trace.last) = 2
    /\ IsSafeCall(First)
    /\ Last.op = First.op
    /\ Last.args = First.args

\* the nodes of a type, as a set of rows
NodesOfType(db, node_type) ==
    {db.nodes[i] : i \in {j \in DOMAIN db.nodes : db.nodes[j].type = node_type}}

\* how many times sub occurs in s
Occurrences(sub, s) ==
    Cardinality({i \in 1..(Len(s) - Len(sub) + 1) : SubSeq(s, i, i + Len(sub) - 1) = sub})

\* the occurrences, in a text read without case, of the keywords associated
\* with a vulnerability name
RECURSIVE SumOccurrences(_, _)
SumOccurrences(keywords, text) ==
    IF keywords = <<>> THEN 0
    ELSE Occurrences(Head(keywords), text) + SumOccurrences(Tail(keywords), text)
KeywordOccurrences(vuln_name, text) ==
    SumOccurrences(KeywordsOf(Replace(Lower(vuln_name), <<" ">>, <<"_">>), <<Lower(vuln_name)>>),
                   Lower(text))

\* the passes of the automatic enhancer that have returned in the current run
PassesDone ==
    LET order == <<"auto_demonstrates", "auto_pairs", "auto_prevents", "auto_explains",
                   "auto_uses", "auto_relates", "auto_domains", "auto_commit">>
    IN  IF run.who = "auto" /\ \E i \in DOMAIN order : order[i] = pc
        THEN {order[j] : j \in 1..((CHOOSE i \in DOMAIN order : order[i] = pc) - 1)}
        ELSE {}

\* the statistics agree with the rows of the store
RECURSIVE Total(_, _)
Total(counts, keys) ==
    IF keys = {} THEN 0
    ELSE LET k == CHOOSE x \in keys : TRUE IN counts[k] + Total(counts, keys \ {k})
StatisticsAgree(st, db) ==
    /\ st.total_nodes = Len(db.nodes)
    /\ st.total_nodes = Total(st.nodes_by_type, DOMAIN st.nodes_by_type)
    /\ st.total_edges = Len(db.edges)
    /\ st.total_edges = Total(st.edges_by_type, DOMAIN st.edges_by_type)
    /\ DOMAIN st.nodes_by_type = {db.nodes[i].type : i \in DOMAIN db.nodes}
    /\ \A t \in DOMAIN st.nodes_by_type :
        st.nodes_by_type[t] = Cardinality({i \in DOMAIN db.nodes : db.nodes[i].type = t})
    /\ DOMAIN st.edges_by_type = {db.edges[i].relationship_type : i \in DOMAIN db.edges}
    /\ \A t \in DOMAIN st.edges_by_type :
        st.edges_by_type[t] =
            Cardinality({i \in DOMAIN db.edges : db.edges[i].relationship_type = t})

\* ------------------------------------------------------------------ claims

\* C1, as stated: for every (source, target, type) whose endpoints both
\* exist, two calls of _add_edge_safe with identical arguments leave exactly
\* one stored edge with that triple, the first call returning true and the
\* second false.
C1_AsStated ==
    (CalledTwice /\ EndpointsStored(First))
        => /\ First.ret = TRUE
           /\ Last.ret = FALSE
           /\ TripleCount(conn, Triple(First.args)) = 1

\* C1, amended: the same, for a triple that was not stored before the first
\* of the two calls.
C1_IdempotentInsert ==
    (CalledTwice /\ EndpointsStored(First) /\ TripleCount(First.pre, Triple(First.args)) = 0)
        => /\ First.ret = TRUE
           /\ Last.ret = FALSE
           /\ TripleCount(conn, Triple(First.args)) = 1

C1_Witness ==
    /\ CalledTwice
    /\ EndpointsStored(First)
    /\ TripleCount(First.pre, Triple(First.args)) = 0
    /\ Len(conn.edges) = Len(First.pre.edges) + 1
    /\ Last.ret = FALSE

\* C2: in every reachable state of the store, after any sequence of loader
\* and inference runs, no two stored edges share the same (source_id,
\* target_id, relationship_type).
C2_UniqueTriples == NoDuplicateTriple(disk) /\ NoDuplicateTriple(conn)

\* C3: in every reachable state, both endpoints of every stored edge are
\* ids of stored nodes, whichever writer created the edge.
C3_ReferentialIntegrity == NoDanglingEdge(disk) /\ NoDanglingEdge(conn)

\* C4: _add_edge_safe called with a source or target id that is not a
\* stored node returns false and leaves the edge table and the counters of
\* the run unchanged.
C4_DanglingRejected ==
    (HasLast /\ IsSafeCall(Last) /\ ~EndpointsStored(Last))
        => /\ Last.ret = FALSE
           /\ conn.edges = Last.pre.edges
           /\ stats = Last.preStats

\* C5: a node whose type is outside the closed set is rejected by _add_node:
\* it is not stored and no find_by_type returns it, so every stored node's
\* type is in the closed set.
C5_TypeClosure ==
    /\ \A i \in DOMAIN conn.nodes : conn.nodes[i].type \in NodeTypes
    /\ (HasLast /\ Last.op = "_add_node" /\ Last.args.node_type \notin NodeTypes)
        => /\ conn.nodes = Last.pre.nodes
           /\ find_by_type(conn, Last.args.node_type) = <<>>

\* C6: node upsert is idempotent by id: there is one stored node per id,
\* re-inserting a stored id does not change the node count, the stored
\* columns are those of the most recent insert for the id, and the rows of
\* the other ids are as they were.
C6_UpsertById ==
    /\ \A i, j \in DOMAIN conn.nodes : conn.nodes[i].id = conn.nodes[j].id => i = j
    /\ (HasLast /\ Last.op = "_add_node")
        => /\ Len(conn.nodes) = Len(Last.pre.nodes)
                                + (IF Last.args.node_id \in NodeIds(Last.pre) THEN 0 ELSE 1)
           /\ \E i \in DOMAIN conn.nodes :
                /\ conn.nodes[i].id = Last.args.node_id
                /\ conn.nodes[i].type = Last.args.node_type
                /\ conn.nodes[i].name = Last.args.name
                /\ conn.nodes[i].kb_source = Last.args.kb_source
                /\ conn.nodes[i].file_path = Last.args.file_path
                /\ JsonLoads(conn.nodes[i].data) = Last.args.data
           /\ \A i \in DOMAIN Last.pre.nodes :
                Last.pre.nodes[i].id # Last.args.node_id
                    => \E j \in DOMAIN conn.nodes : conn.nodes[j] = Last.pre.nodes[i]

\* an id is inserted again with other columns than the stored ones
C6_Witness ==
    /\ HasLast
    /\ Last.op = "_add_node"
    /\ \E i \in DOMAIN Last.pre.nodes :
        /\ Last.pre.nodes[i].id = Last.args.node_id
        /\ Last.pre.nodes[i].type # Last.args.node_type
        /\ Last.pre.nodes[i].file_path # Last.args.file_path
    /\ Len(Last.pre.nodes) = Cardinality(ApiNodeIds)


\* C7: running an inference engine again on the store it has already
\* enhanced, with the same documents, leaves the edges as they were and
\* reports no edge added, for no relationship type.
C7_RerunStable ==
    (run.outcome = "committed" /\ run.again)
        => /\ disk.edges = run.start.edges
           /\ run.report.edges_added = 0
           /\ run.report.edges_by_type = EmptyDict
           /\ run.report.edges_after = run.report.edges_before

\* the second run of the automatic enhancer has committed, on a store that
\* holds edges it inferred
C7_Witness ==
    /\ run.outcome = "committed"
    /\ run.again
    /\ run.who = "auto"
    /\ \E i \in DOMAIN disk.edges :
        "auto_detected" \in DOMAIN JsonLoads(disk.edges[i].properties)

\* C8: an inference run only adds edges: every edge stored before the run is
\* stored after it, at any point of it, with the same source, target, type
\* and properties, so the edge count never decreases.
C8_OnlyAdds ==
    run.who # "none"
        => /\ IsPrefix(run.start.edges, conn.edges)
           /\ IsPrefix(run.start.edges, disk.edges)
           /\ Len(conn.edges) >= Len(run.start.edges)

\* a run has committed new edges to a store that already held some
C8_Witness ==
    /\ run.outcome = "committed"
    /\ run.start.edges # <<>>
    /\ Len(disk.edges) > Len(run.start.edges)

\* C9: a crash at any point of an inference run leaves the persisted store
\* valid: no duplicate edge triple and no dangling edge.
C9_CrashLeavesValid ==
    run.outcome = "crashed" => NoDuplicateTriple(disk) /\ NoDanglingEdge(disk)

\* C10: a node whose document is missing or unreadable, or whose location
\* is absent, is skipped by every pass: no inference run is aborted by one.
C10_SkipAndContinue == run.outcome # "aborted"

\* C11: the name similarity of the PairsWith pass is symmetric,
\* similarity(A, B) = similarity(B, A), and reflexive, similarity(A, A) = 1.0
\* for every name A that is not empty.
C11_SimilarityLaws ==
    (HasLast /\ Last.op = "_name_similarity")
        => /\ Last.ret = _name_similarity(Last.args.name2, Last.args.name1)
           /\ (Last.args.name1 = Last.args.name2 /\ Last.args.name1 # <<>>)
                => Last.ret[1] = Last.ret[2]

\* C12: for every (DeepDive, Vulnerability) pair whose DeepDive document is
\* readable, once the Explains pass has returned the EXPLAINS edge
\* DeepDive -> Vulnerability is stored when the keywords of the vulnerability
\* are matched at least twice in the text of the document, read without
\* case, and no such edge was added when they are matched less than twice.
C12_KeywordThreshold ==
    "auto_explains" \in PassesDone
        => \A dd \in NodesOfType(conn, "DeepDive"), vuln \in NodesOfType(conn, "Vulnerability") :
            dd.file_path \in DOMAIN files.content
                => LET t == <<dd.id, vuln.id, "EXPLAINS">>
                       matches == KeywordOccurrences(vuln.name, files.content[dd.file_path])
                   IN  IF matches >= 2
                       THEN TripleCount(conn, t) >= 1
                       ELSE TripleCount(conn, t) = TripleCount(run.start, t)

\* the name of the vulnerability, in lower case with "_" for " ", occurs in
\* the name or in the location of the contract
NameInContract(vuln, vc) ==
    LET normalized == Replace(Lower(vuln.name), <<" ">>, <<"_">>)
    IN  \/ Occurrences(normalized, Lower(vc.name)) > 0
        \/ vc.file_path # None /\ Occurrences(normalized, Lower(vc.file_path)) > 0

\* C13: for every (VulnerableContract, Vulnerability) pair, once the
\* Demonstrates pass has returned there is exactly one DEMONSTRATES edge
\* contract -> vulnerability when the normalized name of the vulnerability
\* is a substring of the contract's name or location, and no such edge was
\* added for a pair where it is not.
C13_DemonstratesExactlyOne ==
    "auto_demonstrates" \in PassesDone
        => \A vc \in NodesOfType(conn, "VulnerableContract"),
              vuln \in NodesOfType(conn, "Vulnerability") :
            LET t == <<vc.id, vuln.id, "DEMONSTRATES">>
            IN  IF NameInContract(vuln, vc)
                THEN TripleCount(conn, t) = 1
                ELSE TripleCount(conn, t) = TripleCount(run.start, t)

\* the marker of the Prevents example and the name of its vulnerability
NonReentrant == <<"n","o","n","R","e","e","n","t","r","a","n","t">>
ReentrancyName == <<"R","e","e","n","t","r","a","n","c","y">>
ReentrancyGuardMarker == <<"R","e","e","n","t","r","a","n","c","y","G","u","a","r","d">>

\* C14, as stated: for a Template whose document contains the marker
\* nonReentrant and a Vulnerability named Reentrancy, with no PREVENTS edge
\* between them before the run, once the Prevents pass has returned there is
\* a PREVENTS edge template -> vulnerability whose mechanism is
\* nonReentrant, whatever else the document contains.
C14_AsStated ==
    "auto_prevents" \in PassesDone
        => \A template \in NodesOfType(conn, "Template"),
              vuln \in NodesOfType(conn, "Vulnerability") :
            (/\ template.file_path \in DOMAIN files.content
             /\ Occurrences(NonReentrant, files.content[template.file_path]) > 0
             /\ vuln.name = ReentrancyName
             /\ TripleCount(run.start, <<template.id, vuln.id, "PREVENTS">>) = 0)
                => \E i \in DOMAIN conn.edges :
                    /\ Triple(conn.edges[i]) = <<template.id, vuln.id, "PREVENTS">>
                    /\ JsonLoads(conn.edges[i].properties).mechanism = NonReentrant

\* C14, amended: the same, the mechanism of the one PREVENTS edge being
\* nonReentrant when the document, read without case, does not contain the
\* marker ReentrancyGuard, and ReentrancyGuard when it does.
C14_MechanismFirstMarker ==
    "auto_prevents" \in PassesDone
        => \A template \in NodesOfType(conn, "Template"),
              vuln \in NodesOfType(conn, "Vulnerability") :
            (/\ template.file_path \in DOMAIN files.content
             /\ Occurrences(NonReentrant, files.content[template.file_path]) > 0
             /\ vuln.name = ReentrancyName
             /\ TripleCount(run.start, <<template.id, vuln.id, "PREVENTS">>) = 0)
                => /\ TripleCount(conn, <<template.id, vuln.id, "PREVENTS">>) = 1
                   /\ \E i \in DOMAIN conn.edges :
                        /\ Triple(conn.edges[i]) = <<template.id, vuln.id, "PREVENTS">>
                        /\ JsonLoads(conn.edges[i].properties).mechanism =
                            IF Occurrences(Lower(ReentrancyGuardMarker),
                                           Lower(files.content[template.file_path])) > 0
                            THEN ReentrancyGuardMarker
                            ELSE NonReentrant

\* the pass has added the edge for a document whose only marker is nonReentrant
C14_Witness ==
    /\ "auto_prevents" \in PassesDone
    /\ files.content[TemplateDoc] = TemplateTextModifier
    /\ TripleCount(run.start, <<"template_secure_erc20", "vuln_reentrancy", "PREVENTS">>) = 0
    /\ \E i \in DOMAIN conn.edges :
        /\ Triple(conn.edges[i]) = <<"template_secure_erc20", "vuln_reentrancy", "PREVENTS">>
        /\ JsonLoads(conn.edges[i].properties).mechanism = NonReentrant

\* C15: the statistics are consistent with the store in every reachable
\* state: total_nodes is the number of stored nodes and the sum of
\* nodes_by_type, total_edges is the number of stored edges and the sum of
\* edges_by_type, and each entry per type is the count of the stored nodes
\* or edges of the type.
C15_StatisticsAgree ==
    /\ StatisticsAgree(get_statistics(conn), conn)
    /\ StatisticsAgree(get_statistics(disk), disk)
    /\ (HasLast /\ Last.op = "get_statistics") => StatisticsAgree(Last.ret, Last.pre)

\* the statistics were asked of a store with two Vulnerability nodes, one
\* Template node and one edge
C15_Witness ==
    /\ HasLast
    /\ Last.op = "get_statistics"
    /\ Len(Last.pre.nodes) = 3
    /\ Len(Last.pre.edges) = 1
    /\ Last.ret.total_nodes = 3
    /\ Last.ret.total_edges = 1
    /\ Last.ret.nodes_by_type = [t \in {"Vulnerability", "Template"} |->
                                    IF t = "Vulnerability" THEN 2 ELSE 1]

\* the edges of a store at a node, of one relationship type when one is given
EdgesAt(db, node_id, relationship_type) ==
    {db.edges[i] : i \in {j \in DOMAIN db.edges :
        /\ db.edges[j].source_id = node_id \/ db.edges[j].target_id = node_id
        /\ relationship_type # Absent => db.edges[j].relationship_type = relationship_type[1]}}
OtherEnd(e, node_id) == IF e.source_id = node_id THEN e.target_id ELSE e.source_id

\* C16: get_related(n, r) contains the other endpoint of every stored edge
\* that has n as source or as target, of type r when r is given, tagged with
\* the relationship type of the edge; it never contains n; it is empty for
\* an id with no incident edge and for an id that is no stored node.
C16_Neighbors ==
    (HasLast /\ Last.op = "get_related")
        => LET n == Last.args.node_id
               at == EdgesAt(Last.pre, n, Last.args.relationship_type)
           IN  /\ \A e \in at :
                    OtherEnd(e, n) # n
                        => \E k \in DOMAIN Last.ret :
                            /\ Last.ret[k].id = OtherEnd(e, n)
                            /\ Last.ret[k].relationship_type = e.relationship_type
               /\ \A k \in DOMAIN Last.ret : Last.ret[k].id # n
               /\ (at = {} \/ n \notin NodeIds(Last.pre)) => Last.ret = <<>>

\* the direct edges of a store from s to t
DirectEdges(db, s, t) ==
    {i \in DOMAIN db.edges : db.edges[i].source_id = s /\ db.edges[i].target_id = t}

\* C17: for all ids s and t of stored nodes, get_path(s, t, max_depth) is
\* not empty if and only if a stored edge with source s and target t
\* exists, whatever max_depth is: it is empty when s and t are connected
\* through other nodes only, or by an edge from t to s only; a path that is
\* returned is one stored edge from s to t.
C17_DirectPath ==
    (HasLast /\ Last.op = "get_path")
        => LET s == Last.args.source_id
               t == Last.args.target_id
               direct == DirectEdges(Last.pre, s, t)
           IN  /\ (s \in NodeIds(Last.pre) /\ t \in NodeIds(Last.pre))
                    => (Last.ret # <<>> <=> direct # {})
               /\ Last.ret # <<>>
                    => /\ Len(Last.ret) = 1
                       /\ Len(Last.ret[1]) = 1
                       /\ \E i \in direct :
                            Triple(Last.ret[1][1]) = Triple(Last.pre.edges[i])

\* a path was asked, with max_depth 3, from the template to a vulnerability
\* that is two edges away and that no edge from the template reaches
C17_Witness ==
    /\ HasLast
    /\ Last.op = "get_path"
    /\ Last.args = [source_id |-> "template_secure_erc20", target_id |-> "vuln_overflow",
                    max_depth |-> 3]
    /\ DirectEdges(Last.pre, "template_secure_erc20", "vuln_reentrancy") # {}
    /\ DirectEdges(Last.pre, "vuln_reentrancy", "vuln_overflow") # {}
    /\ DirectEdges(Last.pre, "template_secure_erc20", "vuln_overflow") = {}
    /\ Last.ret = <<>>


\* C18: every node returned by find_vulnerabilities is a Vulnerability that
\* satisfies every supplied filter: its severity equals the severity given and
\* its historical loss is at least the threshold given, threshold 0 included;
\* a vulnerability whose payload lacks a filtered field is not returned
C18_Filters ==
    (HasLast /\ Last.op = "find_vulnerabilities")
        => \A i \in DOMAIN Last.ret :
            LET row == Last.ret[i]
                severity == Last.args.severity
                min_loss == Last.args.min_loss
            IN  /\ row.type = "Vulnerability"
                /\ severity # Absent
                    => /\ "severity" \in DOMAIN JsonLoads(row.data)
                       /\ JsonLoads(row.data).severity = severity[1]
                /\ min_loss # Absent
                    => /\ "historical_losses_usd" \in DOMAIN JsonLoads(row.data)
                       /\ JsonLoads(row.data).historical_losses_usd >= min_loss[1]

\* the nodes of a store in whose name the term occurs
NamedWith(db, term) ==
    {i \in DOMAIN db.nodes : Contains(Lower(term), Lower(db.nodes[i].name))}

\* C19: when the term occurs in the name of exactly one node of the store,
\* search(term, limit) with limit >= 1 returns rows and that node is the
\* first of them
C19_NamedNodeFirst ==
    (HasLast /\ Last.op = "search" /\ Last.args.limit >= 1)
        => \A i \in DOMAIN Last.pre.nodes :
            NamedWith(Last.pre, Last.args.query) = {i}
                => /\ Last.ret.error = ""
                   /\ Last.ret.rows # <<>>
                   /\ Last.ret.rows[1].id = Last.pre.nodes[i].id

\* the relationship types of the data model
RelationshipTypes ==
    {"DEMONSTRATES", "PAIRS_WITH", "PREVENTS", "EXPLAINS", "USES", "RELATES_TO",
     "SUPERSEDES", "PROVIDES_PERSPECTIVE", "REFERENCES"}

\* C20: in every reachable state every stored edge has a relationship type of
\* the closed set: a relationship record with another type is not stored
C20_ClosedTypes ==
    /\ \A i \in DOMAIN conn.edges : conn.edges[i].relationship_type \in RelationshipTypes
    /\ \A i \in DOMAIN disk.edges : disk.edges[i].relationship_type \in RelationshipTypes

\* C21: a rebuild while the ingest file is missing ends in an error (a
\* non-zero exit status) and not in a successful build, and the nodes and
\* edges persisted before it are unchanged
C21_MissingIngestFails ==
    (HasLast /\ Last.op = "main" /\ ~Last.args.metadata_exists)
        => /\ Last.ret.exit_status # 0
           /\ disk.nodes = Last.pre.nodes
           /\ disk.edges = Last.pre.edges

\* the protocol a node declares, in lower case; empty when it declares none
DeclaredProtocol(node) ==
    IF "protocol" \in DOMAIN JsonLoads(node.data)
    THEN Lower(JsonLoads(node.data).protocol) ELSE <<>>

\* two declared protocols, one a substring of the other
ProtocolsMatch(a, b) ==
    /\ a # <<>>
    /\ b # <<>>
    /\ Contains(a, b) \/ Contains(b, a)

\* the Jaccard similarity of the words of two names is above one half
NamesSimilar(name1, name2) ==
    LET words1 == Words(Lower(name1))
        words2 == Words(Lower(name2))
    IN  2 * Cardinality(words1 \cap words2) > Cardinality(words1 \cup words2)

\* C22: once the PairsWith pass has run, a deep dive and an integration are
\* joined by a PAIRS_WITH edge exactly when their declared protocols match
\* (an absent or empty protocol matches nothing) or the similarity of their
\* names is above 0.5
C22_PairsIffMatch ==
    "auto_pairs" \in PassesDone
        => \A dd \in NodesOfType(conn, "DeepDive"), integ \in NodesOfType(conn, "Integration") :
            TripleCount(conn, <<dd.id, integ.id, "PAIRS_WITH">>) >= 1
                <=> \/ ProtocolsMatch(DeclaredProtocol(dd), DeclaredProtocol(integ))
                    \/ NamesSimilar(dd.name, integ.name)

\* the places in the domain table of the domains with a keyword in the name
\* or the location of a node
MatchingDomains(node) ==
    {d \in DOMAIN domain_keywords :
        \E i \in DOMAIN domain_keywords[d].keywords :
            \/ Contains(domain_keywords[d].keywords[i], Lower(node.name))
            \/ Contains(domain_keywords[d].keywords[i], Lower(node.file_path))}

\* C23: once the DomainTagging pass has run, the inferred domain in the
\* payload of a node is the first domain of the table that matches its name
\* or location, and a node that matches no domain has no inferred domain
C23_FirstMatchingDomain ==
    "auto_domains" \in PassesDone
        => \A i \in DOMAIN conn.nodes :
            LET node == conn.nodes[i]
                matching == MatchingDomains(node)
                first == CHOOSE d \in matching : \A e \in matching : d <= e
            IN  IF matching = {}
                THEN "inferred_domain" \notin DOMAIN JsonLoads(node.data)
                ELSE /\ "inferred_domain" \in DOMAIN JsonLoads(node.data)
                     /\ JsonLoads(node.data).inferred_domain = domain_keywords[first].domain

\* a payload without its inferred domain
WithoutDomain(data) ==
    [k \in DOMAIN JsonLoads(data) \ {"inferred_domain"} |-> JsonLoads(data)[k]]

\* C24: the DomainTagging pass leaves the edges, the node ids, and the type,
\* name, source collection, location and every payload attribute other than
\* the inferred domain of every node as they were
C24_DomainsFrame ==
    [][(pc = "auto_domains" /\ pc' = "auto_commit")
        => /\ conn'.edges = conn.edges
           /\ DOMAIN conn'.nodes = DOMAIN conn.nodes
           /\ \A i \in DOMAIN conn.nodes :
                /\ conn'.nodes[i].id = conn.nodes[i].id
                /\ conn'.nodes[i].type = conn.nodes[i].type
                /\ conn'.nodes[i].name = conn.nodes[i].name
                /\ conn'.nodes[i].kb_source = conn.nodes[i].kb_source
                /\ conn'.nodes[i].file_path = conn.nodes[i].file_path
                /\ WithoutDomain(conn'.nodes[i].data) = WithoutDomain(conn.nodes[i].data)]_vars

\* the pass has just tagged a node of a store that holds edges, and the
\* payload of that node has other attributes
C24_Witness ==
    /\ run.who = "auto"
    /\ pc = "auto_commit"
    /\ conn.edges # <<>>
    /\ \E i \in DOMAIN conn.nodes :
        /\ conn.nodes[i].data # disk.nodes[i].data
        /\ "inferred_domain" \in DOMAIN JsonLoads(conn.nodes[i].data)
        /\ DOMAIN JsonLoads(conn.nodes[i].data) # {"inferred_domain"}

\* the edges of a store as triples, and the inferred domain of its nodes
Triples(db) == {Triple(db.edges[i]) : i \in DOMAIN db.edges}
DomainTags(db) ==
    {<<db.nodes[i].id,
       IF "inferred_domain" \in DOMAIN JsonLoads(db.nodes[i].data)
       THEN JsonLoads(db.nodes[i].data).inferred_domain ELSE "none">> : i \in DOMAIN db.nodes}

\* the strategies in the order of enhance, from the store the run began with
InCodeOrder ==
    enhance_strategies([db |-> run.start, stats |-> InitStats, ret |-> FALSE], files)

\* C25: the seven strategies run in any order leave the edge triples and the
\* inferred domains that the order of enhance leaves, and one of them raises
\* in an order only if one raises in the order of enhance
C25_OrderIndependent ==
    run.who = "order"
        => /\ (run.done = Strategies
                => /\ InCodeOrder.ok
                   /\ Triples(conn) = Triples(InCodeOrder.db)
                   /\ DomainTags(conn) = DomainTags(InCodeOrder.db))
           /\ (run.outcome = "aborted" => ~InCodeOrder.ok /\ conn = run.start)

\* the seven strategies have run, the DomainTagging one before the last, and
\* the run has added edges and tagged nodes
C25_Witness ==
    /\ run.who = "order"
    /\ run.done = Strategies
    /\ Triples(conn) # Triples(run.start)
    /\ DomainTags(conn) # DomainTags(run.start)
    /\ conn.nodes # InCodeOrder.db.nodes \/ conn.edges # InCodeOrder.db.edges

\* the edges of a type that a store holds and another does not
NewOfType(after, before, relationship_type) ==
    Cardinality({i \in DOMAIN after.edges :
                    /\ after.edges[i].relationship_type = relationship_type
                    /\ \A j \in DOMAIN before.edges : before.edges[j] # after.edges[i]})

\* C26: the report of a committed run of the automatic enhancer agrees with
\* the store: the edges added are the edges after less the edges before and
\* the sum of the counts by type, and the count of a type is the number of
\* edges of that type in the store after the run and not before it
C26_ReportConsistent ==
    (run.who = "auto" /\ run.outcome = "committed")
        => /\ run.report.edges_added = run.report.edges_after - run.report.edges_before
           /\ run.report.edges_added
                = Total(run.report.edges_by_type, DOMAIN run.report.edges_by_type)
           /\ run.report.edges_after = Len(disk.edges)
           /\ run.report.edges_before = Len(run.start.edges)
           /\ \A t \in RelationshipTypes \cup DOMAIN run.report.edges_by_type :
                NewOfType(disk, run.start, t)
                    = IF t \in DOMAIN run.report.edges_by_type
                      THEN run.report.edges_by_type[t] ELSE 0

\* a committed run has reported edges of two types
C26_Witness ==
    /\ run.who = "auto"
    /\ run.outcome = "committed"
    /\ pc = "idle"
    /\ Cardinality(DOMAIN run.report.edges_by_type) >= 2
    /\ run.report.edges_before > 0

\* the rows of the search index that stand for a node
IndexRowsOf(db, node_id) ==
    {j \in DOMAIN db.search_index : db.search_index[j].entity_id = node_id}

\* one index row per stored node, holding that node's name, location and
\* payload
OneIndexEntryPerNode(db) ==
    /\ \A i \in DOMAIN db.nodes :
        /\ Cardinality(IndexRowsOf(db, db.nodes[i].id)) = 1
        /\ \A j \in IndexRowsOf(db, db.nodes[i].id) :
            db.search_index[j].content
                = <<db.nodes[i].name, db.nodes[i].file_path, db.nodes[i].data>>
    /\ \A j \in DOMAIN db.search_index :
        \E i \in DOMAIN db.nodes : db.nodes[i].id = db.search_index[j].entity_id

\* C27: after any sequence of upserts and rebuilds the search index holds one
\* entry per stored node, built from the node as it is stored, and a search
\* returns no node twice
C27_OneIndexEntry ==
    /\ OneIndexEntryPerNode(disk)
    /\ (HasLast /\ Last.op = "search")
        => \A i, j \in DOMAIN Last.ret.rows :
            Last.ret.rows[i].id = Last.ret.rows[j].id => i = j

\* a version text as its three numbers, and the order of such triples
VersionTuple(text) ==
    <<int(split(text, ".")[1]), int(split(text, ".")[2]), int(split(text, ".")[3])>>
TupleLess(a, b) ==
    \/ a[1] < b[1]
    \/ a[1] = b[1] /\ a[2] < b[2]
    \/ a[1] = b[1] /\ a[2] = b[2] /\ a[3] < b[3]

\* C28: a call of increment_version stores and returns a version greater, as
\* a triple of numbers, than the version before it, which is 1.0.0 on a store
\* that has none: major + 1, 0, 0 for a major bump; major, minor + 1, 0 for a
\* minor bump; major, minor, patch + 1 for any other bump type
C28_VersionBumps ==
    (HasLast /\ Last.op = "increment_version")
        => LET before == IF "version" \in DOMAIN Last.pre.graph_metadata
                         THEN VersionTuple(Last.pre.graph_metadata["version"])
                         ELSE <<1, 0, 0>>
               after == VersionTuple(conn.graph_metadata["version"])
           IN  /\ Last.ret = conn.graph_metadata["version"]
               /\ disk.graph_metadata = conn.graph_metadata
               /\ TupleLess(before, after)
               /\ after = IF Last.args.bump_type = "major" THEN <<before[1] + 1, 0, 0>>
                          ELSE IF Last.args.bump_type = "minor"
                               THEN <<before[1], before[2] + 1, 0>>
                               ELSE <<before[1], before[2], before[3] + 1>>

\* a minor bump has reset a patch number of two digits
C28_Witness ==
    /\ HasLast
    /\ Last.op = "increment_version"
    /\ Last.args.bump_type = "minor"
    /\ "version" \in DOMAIN Last.pre.graph_metadata
    /\ VersionTuple(Last.pre.graph_metadata["version"])[3] >= 10
    /\ VersionTuple(conn.graph_metadata["version"])[3] = 0
    /\ conn.nodes # <<>>

\* the node types a pass of the automatic enhancer joins with each
\* relationship type
PassEndTypes ==
    [DEMONSTRATES |-> <<"VulnerableContract", "Vulnerability">>,
     PAIRS_WITH |-> <<"DeepDive", "Integration">>,
     PREVENTS |-> <<"Template", "Vulnerability">>,
     EXPLAINS |-> <<"DeepDive", "Vulnerability">>,
     USES |-> <<"Integration", "Template">>,
     RELATES_TO |-> <<"DeepDive", "Template">>]

\* the edges the current run of the automatic enhancer has added
AddedByRun ==
    IF run.who = "auto" /\ run.outcome \in {"running", "committed"}
    THEN {i \in DOMAIN conn.edges : i > Len(run.start.edges)}
    ELSE {}

\* the stored type of the node with an id
StoredType(db, node_id) ==
    {db.nodes[i].type : i \in {j \in DOMAIN db.nodes : db.nodes[j].id = node_id}}

\* C29: every edge added by a run of the automatic enhancer has one of the
\* six relationship types of its passes, joins nodes of the two types of that
\* pass, and has auto_detected = true in its properties
C29_AutoEdgesWellTyped ==
    \A i \in AddedByRun :
        LET e == conn.edges[i] IN
        /\ e.relationship_type \in DOMAIN PassEndTypes
        /\ StoredType(conn, e.source_id) = {PassEndTypes[e.relationship_type][1]}
        /\ StoredType(conn, e.target_id) = {PassEndTypes[e.relationship_type][2]}
        /\ "auto_detected" \in DOMAIN JsonLoads(e.properties)
        /\ JsonLoads(e.properties).auto_detected = TRUE

\* a run has added edges of the six relationship types
C29_Witness ==
    /\ pc = "auto_commit"
    /\ {conn.edges[i].relationship_type : i \in AddedByRun} = DOMAIN PassEndTypes

\* C30: an insert of a node whose id is stored leaves the edges as they
\* were, and every edge at that id has the one node stored with the id, the
\* one just written, at that end
C30_UpsertKeepsEdges ==
    (HasLast /\ Last.op = "_add_node" /\ Last.args.node_id \in NodeIds(Last.pre))
        => /\ conn.edges = Last.pre.edges
           /\ \A i \in DOMAIN conn.edges :
                (\/ conn.edges[i].source_id = Last.args.node_id
                 \/ conn.edges[i].target_id = Last.args.node_id)
                    => /\ Cardinality({j \in DOMAIN conn.nodes :
                                        conn.nodes[j].id = Last.args.node_id}) = 1
                       /\ \A j \in DOMAIN conn.nodes :
                            conn.nodes[j].id = Last.args.node_id
                                => /\ conn.nodes[j].type = Last.args.node_type
                                   /\ conn.nodes[j].name = Last.args.name

\* a node at the source of one stored edge, or at its target, is written
\* again with another type
C30_Witness ==
    /\ HasLast
    /\ Last.op = "_add_node"
    /\ \E i \in DOMAIN Last.pre.edges :
        \/ Last.pre.edges[i].source_id = Last.args.node_id
        \/ Last.pre.edges[i].target_id = Last.args.node_id
    /\ \E j \in DOMAIN Last.pre.nodes :
        /\ Last.pre.nodes[j].id = Last.args.node_id
        /\ Last.pre.nodes[j].type # Last.args.node_type
    /\ conn.edges # <<>>

=============================================================================
